---- MODULE Spec2Model ----
(***************************************************************************)
(* ConnectionState of discord/state.py: the entity cache, the bounded      *)
(* message buffer, the listener registry and the readiness handshake.      *)
(*                                                                         *)
(* Python objects that are mutated in place or compared by identity live   *)
(* in heaps (guild_objs, events, futures); a reference is an index into    *)
(* the heap and 0 is None.  A dict is a function whose DOMAIN is its key   *)
(* set.  An id inside a gateway record is a raw value [n, s]: the number   *)
(* n, delivered either as an int (s = FALSE) or as its decimal string      *)
(* (s = TRUE); int() maps both to n, a dict lookup by the raw value finds  *)
(* an int key only when the raw value is an int.                           *)
(***************************************************************************)
EXTENDS Integers, Sequences, FiniteSets, TLC

VARIABLES
    max_messages,               \* self.max_messages
    messages,                   \* self.messages (deque)
    users,                      \* self._users
    user,                       \* self.user (NoUser = None)
    user_objs,                  \* number of User objects constructed so far
    guilds,                     \* self._guilds : id -> guild object
    guild_order,                \* list(self._guilds): its keys in iteration order
    guild_objs,                 \* heap of Guild objects
    private_channels,           \* self._private_channels
    private_channels_by_user,   \* self._private_channels_by_user
    listeners,                  \* self._listeners
    futures,                    \* heap of asyncio.Future states
    ready_state,                \* self._ready_state (present = FALSE: no attribute)
    events,                     \* heap of asyncio.Event flags
    is_bot,                     \* self.is_bot
    calls,                      \* self._calls : channel id -> group call
    voice_clients,              \* self._voice_clients : guild id -> voice client
    tasks,                      \* coroutines started with compat.create_task
    dispatched,                 \* what the last step handed to self.dispatch
    called,                     \* the chunker and syncer calls the last step issued
    raised,                     \* the last step left its handler by an exception
    ret,                        \* the value the last step returned (0 = None)
    op,                         \* the last step: [name, id, arg]
    removed,                    \* ids of the messages the last step took out of the buffer
    disturbed,                  \* per task: a guild was folded in since it went to sleep
    batches,                    \* per task: the arguments of its chunker calls, in call order
    syncer_calls,               \* per task: the number of syncer calls it has issued
    seen,                       \* ids in self.messages at each dispatch of the last step
    nextMsg,                    \* environment: next message id the gateway sends
    budget                      \* environment: removals the scenario may still do

cacheVars == <<max_messages, messages, users, user, user_objs, guilds, guild_order, guild_objs,
               private_channels, private_channels_by_user>>
asyncVars == <<listeners, futures, ready_state, events, tasks>>
obsVars   == <<dispatched, called, raised, ret, op, removed, disturbed, batches, syncer_calls,
               seen>>
envVars   == <<nextMsg, budget>>
sessionVars == <<calls, voice_clients>>
vars      == <<cacheVars, asyncVars, is_bot, sessionVars, obsVars, envVars>>

----------------------------------------------------------------------------
(* Bounds of the model *)
MaxMsgs      == 3       \* messages the gateway sends in the small scenarios
MaxGuildObjs == 2       \* Guild objects constructed in one run
MaxUserObjs  == 3       \* User objects constructed in one run
MaxFutures   == 3       \* futures created in one run
MaxTasks     == 2       \* coroutines started in one run
MaxPending   == 1       \* length of ReadyState.guilds
MaxRemovals  == 1       \* removals in the buffer scenario
MaxReactMsgs == 1       \* messages in the reaction scenario
MaxCount     == 2       \* count a reaction row is driven up to
ExtraMsgs    == 5       \* messages sent beyond the capacity in the buffer scenario
MaxRecipients == 3      \* length a recipient list is driven up to
MaxRoles     == 2       \* length a role list is driven up to

(* Program constants *)
MinMessages  == 100     \* max(options.get('max_messages', 5000), 100)
ChunkSize    == 1000    \* math.ceil(guild._member_count / 1000)
BatchSize    == 75      \* guilds[i:i + 75]
ReadySleep   == 2       \* asyncio.sleep(2)
ChunkWait    == 30      \* timeout=len(chunks) * 30.0

(* The ids the gateway uses: two guilds, two users, three channels.  Channel g *)
(* is the channel of guild g; the remaining channel is the direct-message one. *)
GuildIds   == {1, 2}
UserIds    == {1, 2}
ChannelIds == {1, 2, 3}
DMChannel  == CHOOSE c \in ChannelIds : c \notin GuildIds

(* max_messages values a client asks for *)
Requested == {1, MinMessages + 1}

(* member counts a guild record carries, with the record's large flag *)
GuildShapes == { [large |-> FALSE, mc |-> 1],
                 [large |-> TRUE,  mc |-> 1001],
                 [large |-> TRUE,  mc |-> 2500] }

(* emoji payloads: id 0 is a unicode emoji (no id), otherwise a custom one *)
Emojis == { [id |-> 0, name |-> "a"], [id |-> 0, name |-> "b"], [id |-> 7, name |-> "c"] }

----------------------------------------------------------------------------
(* Raw ids, dicts *)
Raw(n, s) == [n |-> n, s |-> s]
RawIds(S) == { Raw(n, s) : n \in S, s \in BOOLEAN }

\* int(data['id'])
ToInt(x) == x.n

\* d.get(k) for a dict d with int keys and a raw key: found only for an int
HasRaw(d, x) == ~x.s /\ x.n \in DOMAIN d

\* d[k] = v
Put(d, k, v) == [x \in DOMAIN d \cup {k} |-> IF x = k THEN v ELSE d[x]]

\* d.pop(k, None)
Pop(d, k) == [x \in DOMAIN d \ {k} |-> d[x]]

EmptyDict == [x \in {} |-> 0]

\* the key order of a dict after d[k] = v: a new key goes last, a key that is
\* present keeps its place
OrderPut(order, k) ==
    IF \E i \in 1..Len(order) : order[i] = k THEN order ELSE Append(order, k)

\* the key order of a dict after d.pop(k, None)
OrderPop(order, k) == SelectSeq(order, LAMBDA x : x # k)

Max2(a, b) == IF a >= b THEN a ELSE b

\* math.ceil(n / d) for n >= 0, d > 0
Ceil(n, d) == (n + d - 1) \div d

\* the elements of s, in order, whose index is not in drop
SelectIdx(s, drop) ==
    LET tagged == [i \in 1..Len(s) |-> <<i, s[i]>>]
        kept == SelectSeq(tagged, LAMBDA p : p[1] \notin drop)
    IN [j \in 1..Len(kept) |-> kept[j][2]]

\* utils.find / utils.get: the first of the indices S that satisfy the test,
\* 0 (None) if there is none
FirstIdx(S) == IF S = {} THEN 0 ELSE CHOOSE i \in S : \A j \in S : i <= j

----------------------------------------------------------------------------
(* Observation of a step *)
Ev(name, arg) == [name |-> name, arg |-> arg]

\* a step of a coroutine: what it dispatched and which collaborators it called
ObsTask(name, id, evs, reqs, exc) ==
    /\ op' = [name |-> name, id |-> id, arg |-> 0]
    /\ dispatched' = evs
    /\ called' = reqs
    /\ raised' = exc
    /\ ret' = 0

\* what tells one buffered message from another: its id and where it was sent
Key(m) == [id |-> m.id, channel |-> m.channel, guild |-> m.guild]

\* the ids of the messages of the buffer q that are not among the messages
\* kept of it, in buffer order; of several messages with one key the handlers
\* take out the first ones
RemovedIds(q, kept) ==
    IF q = kept THEN <<>>
    ELSE LET gone == SelectSeq([i \in 1..Len(q) |-> i], LAMBDA i :
                         Cardinality({ j \in i..Len(q) : Key(q[j]) = Key(q[i]) })
                           > Cardinality({ j \in 1..Len(kept) : Key(kept[j]) = Key(q[i]) }))
         IN [k \in 1..Len(gone) |-> q[gone[k]].id]

\* the step appended a guild to the ReadyState (parse_guild_create, lines 508-510)
Folds ==
    /\ op'.name = "parse_guild_create"
    /\ ready_state.present
    /\ Len(ready_state'.guilds) > Len(ready_state.guilds)

\* task t is suspended in asyncio.sleep after the step
Sleeping(t) == tasks'[t].kind = "ready" /\ tasks'[t].pc = "sleep"

\* the step is coroutine t setting the gate and going to sleep
StartsSleep(t) == op'.name \in {"delay_ready_start", "delay_ready_wake"} /\ op'.id = t

\* the step is the _delay_ready coroutine t issuing a chunker call
ChunkerCall(t) ==
    /\ op'.name \in {"delay_ready_start", "delay_ready_wake", "delay_ready_chunker_returns"}
    /\ op'.id = t
    /\ called' # <<>>
    /\ called'[1].name = "chunker"

\* the syncer calls among the calls cs of a step
SyncerCalls(cs) == { i \in 1..Len(cs) : cs[i].name = "syncer" }

\* the syncer calls the step issued as a step of the _delay_ready coroutine t
SyncerCallsOf(t) ==
    IF op'.id = t /\ op'.name \in {"delay_ready_start", "delay_ready_wake",
                                    "delay_ready_chunker_returns", "delay_ready_chunks_done",
                                    "delay_ready_timeout"}
    THEN Cardinality(SyncerCalls(called'))
    ELSE 0

\* the ids of the messages of the buffer q, in order
MessageIds(q) == [i \in 1..Len(q) |-> q[i].id]

\* self.messages as the k-th dispatch call of the step finds it.
\* parse_message_create dispatches and then appends; parse_message_delete and
\* parse_message_delete_bulk dispatch 'message_delete' for a message and then
\* remove that one message, so the k-th dispatch finds the buffer without the
\* first k - 1 of the messages to be deleted; every other handler is done
\* with the buffer before it dispatches
AtDispatch(k) ==
    IF op'.name = "parse_message_create" THEN messages
    ELSE IF op'.name \in {"parse_message_delete", "parse_message_delete_bulk"}
    THEN LET ids == { dispatched'[j].arg : j \in 1..Len(dispatched') }
             to_be_deleted == SelectSeq([i \in 1..Len(messages) |-> i],
                                        LAMBDA i : messages[i].id \in ids)
         IN SelectIdx(messages, { to_be_deleted[j] : j \in 1..(k - 1) })
    ELSE messages'

\* every step records what it took out of the buffer, for every coroutine
\* asleep in the debounce loop whether a guild was folded in during that sleep,
\* the batch of every chunker call of a handshake and the number of its syncer
\* calls
Observe ==
    /\ removed' = RemovedIds(messages,
                             IF op'.name = "parse_message_create"
                             THEN SubSeq(messages', 1, Len(messages') - 1)
                             ELSE messages')
    /\ disturbed' = [t \in 1..Len(tasks') |->
                        IF ~Sleeping(t) THEN FALSE
                        ELSE IF Folds THEN TRUE
                        ELSE IF StartsSleep(t) THEN FALSE
                        ELSE disturbed[t]]
    /\ batches' = [t \in 1..Len(tasks') |->
                      LET sofar == IF t <= Len(tasks) THEN batches[t] ELSE <<>>
                      IN IF ChunkerCall(t) THEN Append(sofar, called'[1].arg) ELSE sofar]
    /\ syncer_calls' = [t \in 1..Len(tasks') |->
                           (IF t <= Len(tasks) THEN syncer_calls[t] ELSE 0) + SyncerCallsOf(t)]
    /\ seen' = [k \in 1..Len(dispatched') |-> MessageIds(AtDispatch(k))]

\* a handler run on the record arg
ObsA(name, id, arg, evs, exc, r) ==
    /\ op' = [name |-> name, id |-> id, arg |-> arg]
    /\ dispatched' = evs
    /\ called' = <<>>
    /\ raised' = exc
    /\ ret' = r

Obs(name, id, evs, exc, r) == ObsA(name, id, 0, evs, exc, r)

----------------------------------------------------------------------------
(* __init__ and clear *)

NoUser == [id |-> 0, obj |-> 0]

\* max(options.get('max_messages', 5000), 100)
Capacity(requested) == Max2(requested, MinMessages)

Init ==
    /\ max_messages \in { Capacity(r) : r \in Requested }
    /\ messages = <<>>
    /\ users = EmptyDict
    /\ user = [id |-> 0, obj |-> 0]
    /\ user_objs = 0
    /\ guilds = EmptyDict
    /\ guild_order = <<>>
    /\ guild_objs = <<>>
    /\ private_channels = EmptyDict
    /\ private_channels_by_user = EmptyDict
    /\ listeners = <<>>
    /\ futures = <<>>
    /\ ready_state = [present |-> FALSE, launch |-> 0, guilds |-> <<>>]
    /\ events = <<>>
    /\ is_bot \in BOOLEAN
    /\ calls = EmptyDict
    /\ voice_clients = EmptyDict
    /\ tasks = <<>>
    /\ dispatched = <<>>
    /\ called = <<>>
    /\ raised = FALSE
    /\ ret = 0
    /\ op = [name |-> "init", id |-> 0, arg |-> 0]
    /\ removed = <<>>
    /\ disturbed = <<>>
    /\ batches = <<>>
    /\ syncer_calls = <<>>
    /\ seen = <<>>
    /\ nextMsg = 1
    /\ budget = MaxRemovals

\* the keys the session maps hold, recorded by the step that empties them
Held ==
    [calls |-> DOMAIN calls, voice_clients |-> DOMAIN voice_clients,
     private_channels |-> DOMAIN private_channels]

\* faulty variant: the call map and the voice-client map survive
clear_keepssession ==
    /\ user' = NoUser
    /\ users' = EmptyDict
    /\ guilds' = EmptyDict
    /\ guild_order' = <<>>
    /\ private_channels' = EmptyDict
    /\ private_channels_by_user' = EmptyDict
    /\ messages' = <<>>
    /\ UNCHANGED <<calls, voice_clients>>
    /\ UNCHANGED <<max_messages, user_objs, guild_objs, asyncVars, is_bot>>
    /\ ObsA("clear", 0, Held, <<>>, FALSE, 0)

clear ==
    /\ user' = NoUser
    /\ users' = EmptyDict
    /\ guilds' = EmptyDict
    /\ guild_order' = <<>>
    /\ private_channels' = EmptyDict
    /\ private_channels_by_user' = EmptyDict
    /\ messages' = <<>>
    /\ calls' = EmptyDict
    /\ voice_clients' = EmptyDict
    /\ UNCHANGED <<max_messages, user_objs, guild_objs, asyncVars, is_bot>>
    /\ ObsA("clear", 0, Held, <<>>, FALSE, 0)

----------------------------------------------------------------------------
(* Entity cache *)

\* faulty variant: always construct and store a new User
try_insert_user_overwrite(d, n, uid) == Put(d, uid, [id |-> uid, obj |-> n + 1])

\* self._users after try_insert_user for user id uid
try_insert_user_map(d, n, uid) ==
    IF uid \in DOMAIN d THEN d ELSE Put(d, uid, [id |-> uid, obj |-> n + 1])

\* try_insert_user called through self.ctx by an entity constructor
try_insert_user(uid) ==
    /\ users' = try_insert_user_map(users, user_objs, uid)
    /\ user_objs' = IF uid \in DOMAIN users THEN user_objs ELSE user_objs + 1
    /\ UNCHANGED <<max_messages, messages, user, guilds, guild_order, guild_objs,
                   private_channels, private_channels_by_user, asyncVars, is_bot, sessionVars>>
    /\ Obs("try_insert_user", uid, <<>>, FALSE, users'[uid].obj)

\* Guild(data=..., state=...) and Guild._from_data: the fields the cache reads;
\* members and channels are keyed by id, roles is a list
GuildFromData(data) ==
    [id |-> ToInt(data.id), unavailable |-> FALSE,
     large |-> data.large, mc |-> data.mc, channels |-> data.channels,
     members |-> {}, roles |-> <<>>, emojis |-> {}, synced |-> FALSE]

\* guild.get_member(user_id) / utils.get(guild.members, id=user_id) with the raw
\* user id of a record (no int() at the call site): members are kept by int id
get_member_raw(guild, uid) == ~uid.s /\ uid.n \in guild_objs[guild].members

\* self._get_guild(key) for a raw key: the object reference, 0 for None
_get_guild(key) == IF HasRaw(guilds, key) THEN guilds[key.n] ELSE 0

\* get_channel(id) for an int id: [found, guild]; guild is the Guild object the
\* channel belongs to, the first in the iteration order of self._guilds that
\* has the channel, 0 for a private channel
get_channel(cid) ==
    LET owner == FirstIdx({ i \in 1..Len(guild_order) :
                              cid \in guild_objs[guilds[guild_order[i]]].channels })
    IN IF owner # 0
       THEN [found |-> TRUE, guild |-> guilds[guild_order[owner]]]
       ELSE IF cid \in DOMAIN private_channels
       THEN [found |-> TRUE, guild |-> 0]
       ELSE [found |-> FALSE, guild |-> 0]

\* get_channel with the raw id of a record (no int() at the call site)
get_channel_raw(x) == IF x.s THEN [found |-> FALSE, guild |-> 0] ELSE get_channel(x.n)

\* a private channel object: a DMChannel has one recipient, a GroupChannel a
\* list of recipients and no reverse-index entry (recipient 0)
PrivateChannel(cid, kind, uid) ==
    [id |-> cid, kind |-> kind, recipient |-> IF kind = "dm" THEN uid ELSE 0,
     recipients |-> <<uid>>]

\* _add_private_channel for a DMChannel whose recipient is user uid
parse_channel_create_dm(cid, uid) ==
    /\ private_channels' = Put(private_channels, cid, PrivateChannel(cid, "dm", uid))
    /\ private_channels_by_user' = Put(private_channels_by_user, uid, cid)
    /\ UNCHANGED <<max_messages, messages, users, user, user_objs, guilds, guild_order, guild_objs,
                   asyncVars, is_bot, sessionVars>>
    /\ Obs("parse_channel_create", cid, <<Ev("channel_create", cid)>>, FALSE, 0)

\* parse_channel_create for a private channel (DM or group) with id cid
parse_channel_create_private(cid, kind, uid) ==
    /\ private_channels' = Put(private_channels, cid, PrivateChannel(cid, kind, uid))
    /\ private_channels_by_user' =
           IF kind = "dm" THEN Put(private_channels_by_user, uid, cid)
           ELSE private_channels_by_user
    /\ UNCHANGED <<max_messages, messages, users, user, user_objs, guilds, guild_order, guild_objs,
                   asyncVars, is_bot, sessionVars>>
    /\ ObsA("parse_channel_create", cid, kind, <<Ev("channel_create", cid)>>, FALSE, 0)

\* _remove_private_channel(channel) on the two maps
RemovePrivate(pcs, cid) == Pop(pcs, cid)
RemovePrivateByUser(byuser, channel) ==
    IF channel.kind = "dm" THEN Pop(byuser, channel.recipient) ELSE byuser

\* parse_channel_delete; gid is the guild_id of the record, 0 when it has none
parse_channel_delete(gid, cid) ==
    LET guild == IF gid \in DOMAIN guilds THEN guilds[gid] ELSE 0
    IN /\ IF guild # 0
          THEN IF cid \in guild_objs[guild].channels
               THEN /\ guild_objs' = [guild_objs EXCEPT ![guild].channels = @ \ {cid}]
                    /\ UNCHANGED <<private_channels, private_channels_by_user>>
                    /\ ObsA("parse_channel_delete", cid, gid,
                            <<Ev("channel_delete", cid)>>, FALSE, 0)
               ELSE /\ UNCHANGED <<guild_objs, private_channels, private_channels_by_user>>
                    /\ ObsA("parse_channel_delete", cid, gid, <<>>, FALSE, 0)
          ELSE IF cid \in DOMAIN private_channels
          THEN /\ private_channels' = RemovePrivate(private_channels, cid)
               /\ private_channels_by_user' =
                      RemovePrivateByUser(private_channels_by_user, private_channels[cid])
               /\ UNCHANGED guild_objs
               /\ ObsA("parse_channel_delete", cid, gid, <<>>, FALSE, 0)
          ELSE \* _remove_private_channel(None): None.id raises AttributeError
               /\ UNCHANGED <<guild_objs, private_channels, private_channels_by_user>>
               /\ ObsA("parse_channel_delete", cid, gid, <<>>, TRUE, 0)
       /\ UNCHANGED <<max_messages, messages, users, user, user_objs, guilds, guild_order,
                      asyncVars, is_bot, sessionVars>>

\* parse_channel_update; kind "group" takes the private-channel branch
parse_channel_update(kind, gid, cid) ==
    LET guild == IF gid \in DOMAIN guilds THEN guilds[gid] ELSE 0
    IN /\ IF kind = "group"
          THEN IF cid \in DOMAIN private_channels
               THEN ObsA("parse_channel_update", cid, kind,
                         <<Ev("channel_update", cid)>>, FALSE, 0)
               ELSE \* copy.copy(None) is None; None._update_group raises
                    ObsA("parse_channel_update", cid, kind, <<>>, TRUE, 0)
          ELSE IF guild # 0 /\ cid \in guild_objs[guild].channels
          THEN ObsA("parse_channel_update", cid, kind, <<Ev("channel_update", cid)>>, FALSE, 0)
          ELSE ObsA("parse_channel_update", cid, kind, <<>>, FALSE, 0)
       /\ UNCHANGED <<cacheVars, asyncVars, is_bot, sessionVars>>

\* parse_channel_recipient_add: the user is inserted before the channel is used
parse_channel_recipient_add(cid, uid) ==
    LET known == cid \in DOMAIN private_channels
    IN /\ users' = try_insert_user_map(users, user_objs, uid)
       /\ user_objs' = IF uid \in DOMAIN users THEN user_objs ELSE user_objs + 1
       /\ private_channels' =
              IF known THEN [private_channels EXCEPT ![cid].recipients = Append(@, uid)]
              ELSE private_channels
       /\ UNCHANGED <<max_messages, messages, user, guilds, guild_order, guild_objs,
                      private_channels_by_user, asyncVars, is_bot, sessionVars>>
       /\ ObsA("parse_channel_recipient_add", cid, uid,
               IF known THEN <<Ev("group_join", cid)>> ELSE <<>>, ~known, 0)

\* parse_guild_member_add: _make_member reads guild.default_role first
parse_guild_member_add(gid, uid) ==
    LET guild == IF gid \in DOMAIN guilds THEN guilds[gid] ELSE 0
    IN /\ IF guild = 0
          THEN /\ UNCHANGED guild_objs
               /\ ObsA("parse_guild_member_add", gid, uid, <<>>, TRUE, 0)
          ELSE /\ guild_objs' = [guild_objs EXCEPT ![guild].members = @ \cup {uid},
                                                   ![guild].mc = @ + 1]
               /\ ObsA("parse_guild_member_add", gid, uid, <<Ev("member_join", uid)>>, FALSE, 0)
       /\ UNCHANGED <<max_messages, messages, users, user, user_objs, guilds, guild_order,
                      private_channels, private_channels_by_user,
                      asyncVars, is_bot, sessionVars>>

\* parse_guild_member_update: guild.get_member on the looked-up guild, with
\* data['user']['id'] as it came
parse_guild_member_update(gid, uid) ==
    LET guild == IF gid \in DOMAIN guilds THEN guilds[gid] ELSE 0
    IN /\ IF guild = 0
          THEN ObsA("parse_guild_member_update", gid, uid, <<>>, TRUE, 0)
          ELSE IF get_member_raw(guild, uid)
          THEN ObsA("parse_guild_member_update", gid, uid,
                    <<Ev("member_update", uid.n)>>, FALSE, 0)
          ELSE ObsA("parse_guild_member_update", gid, uid, <<>>, FALSE, 0)
       /\ UNCHANGED <<cacheVars, asyncVars, is_bot, sessionVars>>

\* parse_guild_emojis_update: guild.emojis is read and replaced
parse_guild_emojis_update(gid, emojis) ==
    LET guild == IF gid \in DOMAIN guilds THEN guilds[gid] ELSE 0
    IN /\ IF guild = 0
          THEN /\ UNCHANGED guild_objs
               /\ ObsA("parse_guild_emojis_update", gid, emojis, <<>>, TRUE, 0)
          ELSE /\ guild_objs' = [guild_objs EXCEPT ![guild].emojis = emojis]
               /\ ObsA("parse_guild_emojis_update", gid, emojis,
                       <<Ev("guild_emojis_update", gid)>>, FALSE, 0)
       /\ UNCHANGED <<max_messages, messages, users, user, user_objs, guilds, guild_order,
                      private_channels, private_channels_by_user,
                      asyncVars, is_bot, sessionVars>>

\* parse_guild_sync: guild._sync(data) on the looked-up guild
parse_guild_sync(gid) ==
    LET guild == IF gid \in DOMAIN guilds THEN guilds[gid] ELSE 0
    IN /\ IF guild = 0
          THEN /\ UNCHANGED guild_objs
               /\ Obs("parse_guild_sync", gid, <<>>, TRUE, 0)
          ELSE /\ guild_objs' = [guild_objs EXCEPT ![guild].synced = TRUE]
               /\ Obs("parse_guild_sync", gid, <<>>, FALSE, 0)
       /\ UNCHANGED <<max_messages, messages, users, user, user_objs, guilds, guild_order,
                      private_channels, private_channels_by_user,
                      asyncVars, is_bot, sessionVars>>

\* parse_guild_role_create: Role(guild=guild, ...) then guild._add_role(role)
parse_guild_role_create(gid, rid) ==
    LET guild == IF gid \in DOMAIN guilds THEN guilds[gid] ELSE 0
    IN /\ IF guild = 0
          THEN /\ UNCHANGED guild_objs
               /\ ObsA("parse_guild_role_create", gid, rid, <<>>, TRUE, 0)
          ELSE /\ guild_objs' = [guild_objs EXCEPT ![guild].roles = Append(@, rid)]
               /\ ObsA("parse_guild_role_create", gid, rid,
                       <<Ev("guild_role_create", rid)>>, FALSE, 0)
       /\ UNCHANGED <<max_messages, messages, users, user, user_objs, guilds, guild_order,
                      private_channels, private_channels_by_user,
                      asyncVars, is_bot, sessionVars>>

\* utils.find(lambda r: r.id == role_id, guild.roles): index of the role, 0 for None
find_role(guild, rid) ==
    FirstIdx({ i \in 1..Len(guild_objs[guild].roles) : guild_objs[guild].roles[i] = rid })

\* parse_guild_role_delete: utils.find for the role, then guild._remove_role,
\* which takes that one role out of the list and whose ValueError for a role
\* that is not there is swallowed
parse_guild_role_delete(gid, rid) ==
    LET guild == IF gid \in DOMAIN guilds THEN guilds[gid] ELSE 0
    IN /\ IF guild # 0 /\ find_role(guild, rid) # 0
          THEN /\ guild_objs' = [guild_objs EXCEPT ![guild].roles =
                                     SelectIdx(@, {find_role(guild, rid)})]
               /\ ObsA("parse_guild_role_delete", gid, rid,
                       <<Ev("guild_role_delete", rid)>>, FALSE, 0)
          ELSE /\ UNCHANGED guild_objs
               /\ ObsA("parse_guild_role_delete", gid, rid, <<>>, FALSE, 0)
       /\ UNCHANGED <<max_messages, messages, users, user, user_objs, guilds, guild_order,
                      private_channels, private_channels_by_user,
                      asyncVars, is_bot, sessionVars>>

\* parse_guild_role_update: role._update on the role found, then the dispatch
parse_guild_role_update(gid, rid) ==
    LET guild == IF gid \in DOMAIN guilds THEN guilds[gid] ELSE 0
    IN /\ IF guild # 0 /\ find_role(guild, rid) # 0
          THEN ObsA("parse_guild_role_update", gid, rid,
                    <<Ev("guild_role_update", rid)>>, FALSE, 0)
          ELSE ObsA("parse_guild_role_update", gid, rid, <<>>, FALSE, 0)
       /\ UNCHANGED <<cacheVars, asyncVars, is_bot, sessionVars>>

\* parse_guild_member_remove: the member found under data['user']['id'] as it
\* came leaves the guild and the count drops
parse_guild_member_remove(gid, uid) ==
    LET guild == IF gid \in DOMAIN guilds THEN guilds[gid] ELSE 0
    IN /\ IF guild # 0 /\ get_member_raw(guild, uid)
          THEN /\ guild_objs' = [guild_objs EXCEPT ![guild].members = @ \ {uid.n},
                                                   ![guild].mc = @ - 1]
               /\ ObsA("parse_guild_member_remove", gid, uid,
                       <<Ev("member_remove", uid.n)>>, FALSE, 0)
          ELSE /\ UNCHANGED guild_objs
               /\ ObsA("parse_guild_member_remove", gid, uid, <<>>, FALSE, 0)
       /\ UNCHANGED <<max_messages, messages, users, user, user_objs, guilds, guild_order,
                      private_channels, private_channels_by_user,
                      asyncVars, is_bot, sessionVars>>

\* parse_presence_update: the member is looked up under user['id'] as it came;
\* a user not found is made a member when the user record carries a username,
\* without it the record is skipped
parse_presence_update(gid, uid, username) ==
    LET guild == IF gid \in DOMAIN guilds THEN guilds[gid] ELSE 0
    IN /\ IF guild = 0 \/ (~get_member_raw(guild, uid) /\ ~username)
          THEN /\ UNCHANGED guild_objs
               /\ ObsA("parse_presence_update", gid, uid, <<>>, FALSE, 0)
          ELSE /\ guild_objs' = [guild_objs EXCEPT ![guild].members = @ \cup {uid.n}]
               /\ ObsA("parse_presence_update", gid, uid,
                       <<Ev("member_update", uid.n)>>, FALSE, 0)
       /\ UNCHANGED <<max_messages, messages, users, user, user_objs, guilds, guild_order,
                      private_channels, private_channels_by_user,
                      asyncVars, is_bot, sessionVars>>

\* parse_guild_ban_add: utils.get(guild.members, id=user_id) with the user id
\* as it came, dispatch only
parse_guild_ban_add(gid, uid) ==
    LET guild == IF gid \in DOMAIN guilds THEN guilds[gid] ELSE 0
    IN /\ IF guild # 0 /\ get_member_raw(guild, uid)
          THEN ObsA("parse_guild_ban_add", gid, uid, <<Ev("member_ban", uid.n)>>, FALSE, 0)
          ELSE ObsA("parse_guild_ban_add", gid, uid, <<>>, FALSE, 0)
       /\ UNCHANGED <<cacheVars, asyncVars, is_bot, sessionVars>>

\* parse_guild_ban_remove for a record with a user: the user goes through
\* try_insert_user when the guild is cached
parse_guild_ban_remove(gid, uid) ==
    LET known == gid \in DOMAIN guilds
    IN /\ users' = IF known THEN try_insert_user_map(users, user_objs, uid) ELSE users
       /\ user_objs' = IF known /\ uid \notin DOMAIN users THEN user_objs + 1 ELSE user_objs
       /\ UNCHANGED <<max_messages, messages, user, guilds, guild_order, guild_objs,
                      private_channels, private_channels_by_user,
                      asyncVars, is_bot, sessionVars>>
       /\ ObsA("parse_guild_ban_remove", gid, uid,
               IF known THEN <<Ev("member_unban", uid)>> ELSE <<>>, FALSE, 0)

\* guild._from_data(data) on a cached Guild object: the fields of the record
\* are stored on the object, its channels are added to the object's
_from_data(g, data) ==
    [g EXCEPT !.large = data.large, !.mc = data.mc,
              !.channels = IF "channels" \in DOMAIN data THEN @ \cup data.channels ELSE @]

\* parse_guild_update: the cached object is updated in place
parse_guild_update(gid, data) ==
    LET guild == IF gid \in DOMAIN guilds THEN guilds[gid] ELSE 0
    IN /\ IF guild # 0
          THEN /\ guild_objs' = [guild_objs EXCEPT ![guild] = _from_data(@, data)]
               /\ ObsA("parse_guild_update", gid, data, <<Ev("guild_update", gid)>>, FALSE, 0)
          ELSE /\ UNCHANGED guild_objs
               /\ ObsA("parse_guild_update", gid, data, <<>>, FALSE, 0)
       /\ UNCHANGED <<max_messages, messages, users, user, user_objs, guilds, guild_order,
                      private_channels, private_channels_by_user,
                      asyncVars, is_bot, sessionVars>>

\* parse_channel_create for a channel of a guild: the channel is added to the
\* cached guild; for an unknown guild channel stays None and is dispatched so
parse_channel_create_guild(gid, cid) ==
    LET guild == IF gid \in DOMAIN guilds THEN guilds[gid] ELSE 0
    IN /\ IF guild # 0
          THEN /\ guild_objs' = [guild_objs EXCEPT ![guild].channels = @ \cup {cid}]
               /\ ObsA("parse_channel_create", cid, gid,
                       <<Ev("channel_create", cid)>>, FALSE, 0)
          ELSE /\ UNCHANGED guild_objs
               /\ ObsA("parse_channel_create", cid, gid,
                       <<Ev("channel_create", 0)>>, FALSE, 0)
       /\ UNCHANGED <<max_messages, messages, users, user, user_objs, guilds, guild_order,
                      private_channels, private_channels_by_user,
                      asyncVars, is_bot, sessionVars>>

\* list.remove(x): the list without the first x
ListRemove(s, x) == SelectIdx(s, {FirstIdx({ i \in 1..Len(s) : s[i] = x })})

\* parse_channel_recipient_remove: the user is inserted before the channel is
\* used; the ValueError of a user who is no recipient is swallowed
parse_channel_recipient_remove(cid, uid) ==
    LET known == cid \in DOMAIN private_channels
        listed == known /\ \E i \in 1..Len(private_channels[cid].recipients) :
                               private_channels[cid].recipients[i] = uid
    IN /\ users' = try_insert_user_map(users, user_objs, uid)
       /\ user_objs' = IF uid \in DOMAIN users THEN user_objs ELSE user_objs + 1
       /\ private_channels' =
              IF listed THEN [private_channels EXCEPT ![cid].recipients = ListRemove(@, uid)]
              ELSE private_channels
       /\ UNCHANGED <<max_messages, messages, user, guilds, guild_order, guild_objs,
                      private_channels_by_user, asyncVars, is_bot, sessionVars>>
       /\ ObsA("parse_channel_recipient_remove", cid, uid,
               IF listed THEN <<Ev("group_remove", cid)>> ELSE <<>>, ~known, 0)

\* parse_user_update: self.user is a new User, not taken from self._users
parse_user_update(uid) ==
    /\ user' = [id |-> uid, obj |-> user_objs + 1]
    /\ user_objs' = user_objs + 1
    /\ UNCHANGED <<max_messages, messages, users, guilds, guild_order, guild_objs,
                   private_channels, private_channels_by_user, asyncVars, is_bot, sessionVars>>
    /\ Obs("parse_user_update", uid, <<>>, FALSE, 0)

\* parse_resumed
parse_resumed ==
    /\ UNCHANGED <<cacheVars, asyncVars, is_bot, sessionVars>>
    /\ Obs("parse_resumed", 0, <<Ev("resumed", 0)>>, FALSE, 0)

\* parse_typing_start: the typing member is the recipient of a DM channel, the
\* guild member of a guild channel, the recipient of a group with that id
parse_typing_start(cid, uid) ==
    LET channel == get_channel(cid)
        member == IF ~channel.found THEN FALSE
                  ELSE IF channel.guild # 0 THEN uid \in guild_objs[channel.guild].members
                  ELSE IF private_channels[cid].kind = "dm" THEN TRUE
                  ELSE \E i \in 1..Len(private_channels[cid].recipients) :
                           private_channels[cid].recipients[i] = uid
    IN /\ UNCHANGED <<cacheVars, asyncVars, is_bot, sessionVars>>
       /\ ObsA("parse_typing_start", cid, uid,
               IF member THEN <<Ev("typing", cid)>> ELSE <<>>, FALSE, 0)

----------------------------------------------------------------------------
(* Message buffer *)

\* faulty variant: an unbounded list instead of deque(maxlen=n)
DequeAppend_unbounded(q, x, n) == Append(q, x)

\* deque(maxlen=n).append(x)
DequeAppend(q, x, n) == IF Len(q) >= n THEN Append(Tail(q), x) ELSE Append(q, x)

\* deque(iterable, maxlen=n): keeps the last n items
DequeFrom(q, n) == IF Len(q) > n THEN SubSeq(q, Len(q) - n + 1, Len(q)) ELSE q

\* self._get_message(msg_id) for an int id: index in the buffer, 0 for None
_get_message(mid) == FirstIdx({ i \in 1..Len(messages) : messages[i].id = mid })

\* self._get_message(raw) without int(): m.id == raw holds only for an int
_get_message_raw(x) == IF x.s THEN 0 ELSE _get_message(x.n)

parse_message_create(mid, cid) ==
    LET channel == get_channel(cid)
        message == [id |-> mid, channel |-> cid, guild |-> channel.guild, reactions |-> <<>>]
    IN /\ messages' = DequeAppend(messages, message, max_messages)
       /\ UNCHANGED <<max_messages, users, user, user_objs, guilds, guild_order, guild_objs,
                      private_channels, private_channels_by_user, asyncVars, is_bot, sessionVars>>
       /\ ObsA("parse_message_create", mid, cid, <<Ev("message", mid)>>, FALSE, 0)

parse_message_delete(mid) ==
    LET found == _get_message(mid)
    IN /\ messages' = IF found # 0 THEN SelectIdx(messages, {found}) ELSE messages
       /\ UNCHANGED <<max_messages, users, user, user_objs, guilds, guild_order, guild_objs,
                      private_channels, private_channels_by_user, asyncVars, is_bot, sessionVars>>
       /\ Obs("parse_message_delete", mid,
              IF found # 0 THEN <<Ev("message_delete", mid)>> ELSE <<>>, FALSE, 0)

parse_message_delete_bulk(ids) ==
    LET to_be_deleted == { i \in 1..Len(messages) : messages[i].id \in ids }
        kept == SelectIdx(messages, to_be_deleted)
        gone == SelectIdx(messages, (1..Len(messages)) \ to_be_deleted)
    IN /\ messages' = kept
       /\ UNCHANGED <<max_messages, users, user, user_objs, guilds, guild_order, guild_objs,
                      private_channels, private_channels_by_user, asyncVars, is_bot, sessionVars>>
       /\ Obs("parse_message_delete_bulk", 0,
              [i \in 1..Len(gone) |-> Ev("message_delete", gone[i].id)], FALSE, 0)

\* the keys a message-update record may carry besides the ids
EditKeys == SUBSET {"call", "content", "embeds"}

\* parse_message_update for a record with the keys `keys`: the buffered message
\* is edited in place (its id, channel and reactions stay) and 'message_edit' is
\* dispatched.  A record without 'call' and without 'content' is an embed-only
\* edit and data['embeds'] is read: KeyError when the record has no 'embeds', before
\* anything is dispatched
parse_message_update(mid, keys) ==
    LET message == _get_message(mid)
        key_exc == /\ message # 0
                   /\ "call" \notin keys /\ "content" \notin keys /\ "embeds" \notin keys
    IN /\ UNCHANGED <<cacheVars, asyncVars, is_bot, sessionVars>>
       /\ ObsA("parse_message_update", mid, keys,
               IF message # 0 /\ ~key_exc THEN <<Ev("message_edit", mid)>> ELSE <<>>,
               key_exc, 0)

\* a != b for a message's guild a (0 = None) and a cached Guild object b.  The
\* Guild class is not part of this file: its objects compare by identity, as
\* objects do by default, or by id when the class defines the comparison
GuildNe(a, b, byid) ==
    IF a = 0 \/ ~byid THEN a # b ELSE guild_objs[a].id # guild_objs[b].id

\* faulty variant: the cleanup of the message cache left out
PurgeGuild_none(q, guild, byid) == q

\* (msg for msg in self.messages if msg.guild != guild)
PurgeGuild(q, guild, byid) == SelectSeq(q, LAMBDA msg : GuildNe(msg.guild, guild, byid))

\* self._calls[int(data['channel_id'])] = call, for a buffered message only
parse_call_create(mid, cid) ==
    LET message == _get_message(mid)
    IN /\ calls' = IF message # 0 THEN Put(calls, cid, [channel |-> cid, message |-> mid])
                   ELSE calls
       /\ UNCHANGED <<cacheVars, asyncVars, is_bot, voice_clients>>
       /\ ObsA("parse_call_create", cid, mid,
               IF message # 0 THEN <<Ev("call", cid)>> ELSE <<>>, FALSE, 0)

parse_call_update(cid) ==
    /\ UNCHANGED <<cacheVars, asyncVars, is_bot, sessionVars>>
    /\ Obs("parse_call_update", cid,
           IF cid \in DOMAIN calls THEN <<Ev("call_update", cid)>> ELSE <<>>, FALSE, 0)

parse_call_delete(cid) ==
    /\ calls' = Pop(calls, cid)
    /\ UNCHANGED <<cacheVars, asyncVars, is_bot, voice_clients>>
    /\ Obs("parse_call_delete", cid,
           IF cid \in DOMAIN calls THEN <<Ev("call_remove", cid)>> ELSE <<>>, FALSE, 0)

_add_voice_client(guild_id) ==
    /\ voice_clients' = Put(voice_clients, guild_id, [guild |-> guild_id])
    /\ UNCHANGED <<cacheVars, asyncVars, is_bot, calls>>
    /\ Obs("_add_voice_client", guild_id, <<>>, FALSE, 0)

_remove_voice_client(guild_id) ==
    /\ voice_clients' = Pop(voice_clients, guild_id)
    /\ UNCHANGED <<cacheVars, asyncVars, is_bot, calls>>
    /\ Obs("_remove_voice_client", guild_id, <<>>, FALSE, 0)

\* faulty variant: the unavailable mark is ignored and the guild is evicted
parse_guild_delete_evicts(gid, unavailable) ==
    LET guild == IF gid \in DOMAIN guilds THEN guilds[gid] ELSE 0
    IN /\ IF guild = 0
          THEN /\ UNCHANGED <<messages, guilds, guild_order, guild_objs>>
               /\ ObsA("parse_guild_delete", gid, unavailable, <<>>, FALSE, 0)
          ELSE /\ \E byid \in BOOLEAN :
                      messages' = DequeFrom(PurgeGuild(messages, guild, byid), max_messages)
               /\ guilds' = Pop(guilds, guild_objs[guild].id)
               /\ guild_order' = OrderPop(guild_order, guild_objs[guild].id)
               /\ UNCHANGED guild_objs
               /\ ObsA("parse_guild_delete", gid, unavailable, <<Ev("guild_remove", gid)>>, FALSE, 0)
       /\ UNCHANGED <<max_messages, users, user, user_objs,
                      private_channels, private_channels_by_user, asyncVars, is_bot, sessionVars>>

parse_guild_delete(gid, unavailable) ==
    LET guild == IF gid \in DOMAIN guilds THEN guilds[gid] ELSE 0
    IN /\ IF guild = 0
          THEN /\ UNCHANGED <<messages, guilds, guild_order, guild_objs>>
               /\ ObsA("parse_guild_delete", gid, unavailable, <<>>, FALSE, 0)
          ELSE IF unavailable
          THEN /\ guild_objs' = [guild_objs EXCEPT ![guild].unavailable = TRUE]
               /\ UNCHANGED <<messages, guilds, guild_order>>
               /\ ObsA("parse_guild_delete", gid, unavailable, <<Ev("guild_unavailable", gid)>>, FALSE, 0)
          ELSE /\ \E byid \in BOOLEAN :
                      messages' = DequeFrom(PurgeGuild(messages, guild, byid), max_messages)
               /\ guilds' = Pop(guilds, guild_objs[guild].id)
               /\ guild_order' = OrderPop(guild_order, guild_objs[guild].id)
               /\ UNCHANGED guild_objs
               /\ ObsA("parse_guild_delete", gid, unavailable, <<Ev("guild_remove", gid)>>, FALSE, 0)
       /\ UNCHANGED <<max_messages, users, user, user_objs,
                      private_channels, private_channels_by_user, asyncVars, is_bot, sessionVars>>

----------------------------------------------------------------------------
(* Listener registry *)

\* a new asyncio.Future; gid remembers the guild id its listener was registered for
Pending(gid) == [st |-> "pending", val |-> 0, gid |-> gid]

\* a future is done once it holds a result or an exception or was cancelled
Done(f) == f.st # "pending"

\* Future.set_result / set_exception raise InvalidStateError on a done future
CanSet(f) == f.st = "pending"

\* the predicate of receive_chunk, lambda s: s.id == guild_id, on argument arg
\* (a guild object reference, 0 for None): "raise", TRUE or FALSE
Predicate(l, arg) ==
    IF arg = 0 THEN "raise"
    ELSE IF guild_objs[arg].id = l.guild_id THEN "pass" ELSE "fail"

\* the loop without the break after the first matching chunk listener
RECURSIVE ListenerLoop_nobreak(_, _, _, _, _, _)
ListenerLoop_nobreak(ls, i, fs, marked, arg, result) ==
    IF i > Len(ls) THEN [fs |-> fs, marked |-> marked, exc |-> FALSE]
    ELSE LET f == ls[i].future
         IN IF fs[f].st = "cancelled"
            THEN ListenerLoop_nobreak(ls, i + 1, fs, marked \cup {i}, arg, result)
            ELSE IF Predicate(ls[i], arg) = "raise"
            THEN ListenerLoop_nobreak(ls, i + 1, [fs EXCEPT ![f].st = "exception"],
                                      marked \cup {i}, arg, result)
            ELSE IF Predicate(ls[i], arg) = "pass"
            THEN ListenerLoop_nobreak(ls, i + 1,
                                      [fs EXCEPT ![f].st = "result", ![f].val = result],
                                      marked \cup {i}, arg, result)
            ELSE ListenerLoop_nobreak(ls, i + 1, fs, marked, arg, result)

\* the loop that skips a cancelled listener without marking it for removal
RECURSIVE ListenerLoop_skipcancelled(_, _, _, _, _, _)
ListenerLoop_skipcancelled(ls, i, fs, marked, arg, result) ==
    IF i > Len(ls) THEN [fs |-> fs, marked |-> marked, exc |-> FALSE]
    ELSE LET f == ls[i].future
         IN IF fs[f].st = "cancelled"
            THEN ListenerLoop_skipcancelled(ls, i + 1, fs, marked, arg, result)
            ELSE IF Predicate(ls[i], arg) = "raise"
            THEN ListenerLoop_skipcancelled(ls, i + 1, [fs EXCEPT ![f].st = "exception"],
                                            marked \cup {i}, arg, result)
            ELSE IF Predicate(ls[i], arg) = "pass"
            THEN [fs |-> [fs EXCEPT ![f].st = "result", ![f].val = result],
                  marked |-> marked \cup {i}, exc |-> FALSE]
            ELSE ListenerLoop_skipcancelled(ls, i + 1, fs, marked, arg, result)

\* the loop without the try/except around the predicate
RECURSIVE ListenerLoop_propagates(_, _, _, _, _, _)
ListenerLoop_propagates(ls, i, fs, marked, arg, result) ==
    IF i > Len(ls) THEN [fs |-> fs, marked |-> marked, exc |-> FALSE]
    ELSE LET f == ls[i].future
         IN IF fs[f].st = "cancelled"
            THEN ListenerLoop_propagates(ls, i + 1, fs, marked \cup {i}, arg, result)
            ELSE IF Predicate(ls[i], arg) = "raise"
            THEN [fs |-> fs, marked |-> marked, exc |-> TRUE]
            ELSE IF Predicate(ls[i], arg) = "pass"
            THEN [fs |-> [fs EXCEPT ![f].st = "result", ![f].val = result],
                  marked |-> marked \cup {i}, exc |-> FALSE]
            ELSE ListenerLoop_propagates(ls, i + 1, fs, marked, arg, result)

\* the loop of process_listeners from listener i on: the futures as resolved,
\* the indices marked for removal, and whether InvalidStateError left the loop
RECURSIVE ListenerLoop(_, _, _, _, _, _)
ListenerLoop(ls, i, fs, marked, arg, result) ==
    IF i > Len(ls) THEN [fs |-> fs, marked |-> marked, exc |-> FALSE]
    ELSE LET l == ls[i]
             f == l.future
         IN IF l.type # "chunk"
            THEN ListenerLoop(ls, i + 1, fs, marked, arg, result)
            ELSE IF fs[f].st = "cancelled"
            THEN ListenerLoop(ls, i + 1, fs, marked \cup {i}, arg, result)
            ELSE IF Predicate(l, arg) = "raise"
            THEN IF CanSet(fs[f])
                 THEN ListenerLoop(ls, i + 1, [fs EXCEPT ![f].st = "exception"],
                                   marked \cup {i}, arg, result)
                 ELSE [fs |-> fs, marked |-> marked, exc |-> TRUE]
            ELSE IF Predicate(l, arg) = "pass"
            THEN IF CanSet(fs[f])
                 THEN \* chunk listeners: break after the first match
                      [fs |-> [fs EXCEPT ![f].st = "result", ![f].val = result],
                       marked |-> marked \cup {i}, exc |-> FALSE]
                 ELSE [fs |-> fs, marked |-> marked, exc |-> TRUE]
            ELSE ListenerLoop(ls, i + 1, fs, marked, arg, result)

\* faulty variant: the removal loop after the pass left out
process_listeners_keeps(ls, fs, arg, result) ==
    LET r == ListenerLoop(ls, 1, fs, {}, arg, result)
    IN [listeners |-> ls, futures |-> r.fs, exc |-> r.exc]

\* process_listeners(ListenerType.chunk, argument, result): the registry and the
\* futures afterwards; an exception leaves before the removal loop
process_listeners(ls, fs, arg, result) ==
    LET r == ListenerLoop(ls, 1, fs, {}, arg, result)
    IN [listeners |-> IF r.exc THEN ls ELSE SelectIdx(ls, r.marked),
        futures |-> r.fs, exc |-> r.exc]

\* receive_chunk(guild_id), k times: chunks_needed consumed by extend / list
RECURSIVE receive_chunks(_, _, _, _)
receive_chunks(ls, fs, gid, k) ==
    IF k = 0 THEN [listeners |-> ls, futures |-> fs, chunks |-> <<>>]
    ELSE LET r == receive_chunks(ls, fs, gid, k - 1)
             f == Len(r.futures) + 1
         IN [listeners |-> Append(r.listeners, [type |-> "chunk", future |-> f, guild_id |-> gid]),
             futures |-> Append(r.futures, Pending(gid)),
             chunks |-> Append(r.chunks, f)]

\* faulty variant: one future per full thousand of members
chunks_needed_floor(guild) == guild_objs[guild].mc \div ChunkSize

\* chunks_needed(guild): how many futures it yields
chunks_needed(guild) == Ceil(guild_objs[guild].mc, ChunkSize)

\* the futures chunks_needed yields for the first i guilds of the list gs
Yielded(gs, i) ==
    Cardinality(UNION { { <<j, m>> : m \in 1..chunks_needed(gs[j]) } : j \in 1..i })

\* chunks.extend(self.chunks_needed(guild)) for every guild of the list gs: the
\* k-th future registered is for the guild whose share of the futures holds k
receive_all(ls, fs, gs) ==
    LET upto == [i \in 1..Len(gs) |-> Yielded(gs, i)] \o <<>>
        total == IF gs = <<>> THEN 0 ELSE upto[Len(gs)]
        owner == [k \in 1..total |->
                    guild_objs[gs[CHOOSE i \in 1..Len(gs) :
                                     /\ k <= upto[i]
                                     /\ i > 1 => upto[i - 1] < k]].id] \o <<>>
    IN [listeners |-> ls \o [k \in 1..total |->
                               [type |-> "chunk", future |-> Len(fs) + k, guild_id |-> owner[k]]],
        futures |-> fs \o [k \in 1..total |-> Pending(owner[k])],
        chunks |-> [k \in 1..total |-> Len(fs) + k]]

\* receive_chunk(guild_id) called on its own: the future is returned
receive_chunk(gid) ==
    LET r == receive_chunks(listeners, futures, gid, 1)
    IN /\ listeners' = r.listeners
       /\ futures' = r.futures
       /\ UNCHANGED <<cacheVars, ready_state, events, tasks, is_bot, sessionVars>>
       /\ Obs("receive_chunk", gid, <<>>, FALSE, r.chunks[1])

\* parse_guild_members_chunk for guild id gid; members is the list of the user
\* ids of the member records.  guild._add_member stores a member under its id
parse_guild_members_chunk(gid, members) ==
    LET guild == IF gid \in DOMAIN guilds THEN guilds[gid] ELSE 0
        n == Len(members)
        \* _make_member(None, member) raises on guild.default_role
        member_exc == guild = 0 /\ n > 0
        r == process_listeners(listeners, futures, guild, n)
    IN /\ IF member_exc
          THEN UNCHANGED <<listeners, futures, guild_objs>>
          ELSE /\ listeners' = r.listeners
               /\ futures' = r.futures
               /\ guild_objs' =
                      IF guild = 0 THEN guild_objs
                      ELSE [guild_objs EXCEPT ![guild].members =
                                @ \cup { members[i] : i \in 1..n }]
       /\ UNCHANGED <<max_messages, messages, users, user, user_objs, guilds, guild_order,
                      private_channels, private_channels_by_user,
                      ready_state, events, tasks, is_bot, sessionVars>>
       /\ ObsA("parse_guild_members_chunk", gid, n, <<>>, member_exc \/ r.exc, 0)

\* Future.cancel() by whoever holds the future receive_chunk returned
cancel(f) ==
    /\ f \in 1..Len(futures)
    /\ ~Done(futures[f])
    /\ futures' = [futures EXCEPT ![f].st = "cancelled"]
    /\ UNCHANGED <<cacheVars, listeners, ready_state, events, tasks, is_bot, sessionVars>>
    /\ Obs("cancel", f, <<>>, FALSE, 0)

----------------------------------------------------------------------------
(* Readiness handshake: parse_ready and the _delay_ready coroutine *)

NoReadyState == [present |-> FALSE, launch |-> 0, guilds |-> <<>>]

\* a coroutine handed to compat.create_task; listed remembers the guilds of the
\* ready payload that started it
NewTask(kind, guild, unavailable, listed) ==
    [kind |-> kind, pc |-> "start", launch |-> 0, guild |-> guild, listed |-> listed,
     unavailable |-> unavailable, chunks |-> <<>>, pending |-> <<>>, sent |-> 0,
     timeout |-> 0]

\* _add_private_channel for every record of the ready payload
RECURSIVE AddPrivateChannels(_, _)
AddPrivateChannels(d, pms) ==
    IF pms = <<>> THEN d
    ELSE LET n == Len(pms)
         IN Put(AddPrivateChannels(d, SubSeq(pms, 1, n - 1)), pms[n].id, pms[n])

RECURSIVE AddPrivateChannelsByUser(_, _)
AddPrivateChannelsByUser(d, pms) ==
    IF pms = <<>> THEN d
    ELSE LET n == Len(pms)
             front == AddPrivateChannelsByUser(d, SubSeq(pms, 1, n - 1))
         IN IF pms[n].kind = "dm" THEN Put(front, pms[n].recipient, pms[n].id) ELSE front

\* the list the guild loop of parse_ready iterates: `guilds` is bound to
\* data.get('guilds') and then rebound to self._ready_state.guilds
parse_ready_guilds(data, rs) == rs.guilds

parse_ready(data) ==
    LET rs == [present |-> TRUE, launch |-> Len(events) + 1, guilds |-> <<>>]
        \* self._add_server_from_data is not defined: reaching the loop body raises
        loop_exc == parse_ready_guilds(data, rs) # <<>>
    IN /\ ready_state' = rs
       /\ events' = Append(events, FALSE)
       /\ users' = try_insert_user_map(users, user_objs, data.user)
       /\ user_objs' = IF data.user \in DOMAIN users THEN user_objs ELSE user_objs + 1
       /\ user' = users'[data.user]
       /\ IF loop_exc
          THEN UNCHANGED <<private_channels, private_channels_by_user, tasks>>
          ELSE /\ private_channels' = AddPrivateChannels(private_channels, data.private_channels)
               /\ private_channels_by_user' =
                      AddPrivateChannelsByUser(private_channels_by_user, data.private_channels)
               /\ tasks' = Append(tasks, NewTask("ready", 0, "absent", data.guilds))
       /\ UNCHANGED <<max_messages, messages, guilds, guild_order, guild_objs, listeners, futures, is_bot, sessionVars>>
       /\ ObsA("parse_ready", data.user, data, <<>>, loop_exc, 0)

\* faulty variant: slices of 76 guilds taken every 75
Split_overlong(gs, k) ==
    SubSeq(gs, (k - 1) * BatchSize + 1,
           IF k * BatchSize + 1 < Len(gs) THEN k * BatchSize + 1 ELSE Len(gs))

\* guilds[i:i + 75] for the k-th i
Split(gs, k) ==
    SubSeq(gs, (k - 1) * BatchSize + 1,
           IF k * BatchSize < Len(gs) THEN k * BatchSize ELSE Len(gs))

\* [s.id for s in self.guilds]: self._guilds.values() in iteration order
IdSeq(order) == [i \in 1..Len(order) |-> guild_objs[guilds[order[i]]].id]

\* del self._ready_state, the syncer call of a non-bot session, dispatch('ready')
ReadyFinish(t, tk, name) ==
    /\ ready_state' = NoReadyState
    /\ IF ~is_bot
       THEN /\ tasks' = [tasks EXCEPT ![t] = [tk EXCEPT !.pc = "sync"]]
            /\ ObsTask(name, t, <<>>, <<Ev("syncer", IdSeq(guild_order))>>, FALSE)
       ELSE /\ tasks' = [tasks EXCEPT ![t] = [tk EXCEPT !.pc = "done"]]
            /\ ObsTask(name, t, <<Ev("ready", 0)>>, <<>>, FALSE)

\* if chunks: asyncio.wait(chunks, timeout=len(chunks) * 30.0)
ReadyAfterChunker(t, tk, name) ==
    IF tk.chunks # <<>>
    THEN /\ tasks' = [tasks EXCEPT ![t] =
                        [tk EXCEPT !.pc = "wait", !.timeout = Len(tk.chunks) * ChunkWait]]
         /\ UNCHANGED ready_state
         /\ ObsTask(name, t, <<>>, <<>>, FALSE)
    ELSE ReadyFinish(t, tk, name)

\* lines 187-197 up to the first chunker call
ReadyChunking(t, launch, name) ==
    IF ~ready_state.present
    THEN \* self._ready_state was deleted by another handshake: AttributeError
         /\ tasks' = [tasks EXCEPT ![t].pc = "failed", ![t].launch = launch]
         /\ UNCHANGED <<listeners, futures, ready_state, events>>
         /\ ObsTask(name, t, <<>>, <<>>, TRUE)
    ELSE LET gs == ready_state.guilds
             r == receive_all(listeners, futures, gs)
             tk == [tasks[t] EXCEPT !.launch = launch, !.chunks = r.chunks, !.pending = gs]
         IN /\ listeners' = r.listeners
            /\ futures' = r.futures
            /\ UNCHANGED events
            /\ IF gs # <<>>
               THEN /\ tasks' = [tasks EXCEPT ![t] = [tk EXCEPT !.pc = "chunker", !.sent = 1]]
                    /\ UNCHANGED ready_state
                    /\ ObsTask(name, t, <<>>, <<Ev("chunker", Split(gs, 1))>>, FALSE)
               ELSE ReadyAfterChunker(t, tk, name)

\* while not launch.is_set(): launch.set(); sleep(2)
ReadyLoop(t, launch, name) ==
    IF ~events[launch]
    THEN /\ events' = [events EXCEPT ![launch] = TRUE]
         /\ tasks' = [tasks EXCEPT ![t].pc = "sleep", ![t].launch = launch,
                                   ![t].timeout = ReadySleep]
         /\ UNCHANGED <<listeners, futures, ready_state>>
         /\ ObsTask(name, t, <<>>, <<>>, FALSE)
    ELSE ReadyChunking(t, launch, name)

\* first step of _delay_ready: launch = self._ready_state.launch, then the loop
delay_ready_start(t) ==
    /\ tasks[t].kind = "ready" /\ tasks[t].pc = "start"
    /\ IF ~ready_state.present
       THEN /\ tasks' = [tasks EXCEPT ![t].pc = "failed"]
            /\ UNCHANGED <<listeners, futures, ready_state, events>>
            /\ ObsTask("delay_ready_start", t, <<>>, <<>>, TRUE)
       ELSE ReadyLoop(t, ready_state.launch, "delay_ready_start")
    /\ UNCHANGED <<cacheVars, is_bot, sessionVars>>

\* asyncio.sleep(2) is over
delay_ready_wake(t) ==
    /\ tasks[t].kind = "ready" /\ tasks[t].pc = "sleep"
    /\ ReadyLoop(t, tasks[t].launch, "delay_ready_wake")
    /\ UNCHANGED <<cacheVars, is_bot, sessionVars>>

\* a chunker call returned: the next split, or the wait for the chunks
delay_ready_chunker_returns(t) ==
    LET tk == tasks[t]
    IN /\ tk.kind = "ready" /\ tk.pc = "chunker"
       /\ IF tk.sent < Ceil(Len(tk.pending), BatchSize)
          THEN /\ tasks' = [tasks EXCEPT ![t].sent = tk.sent + 1]
               /\ UNCHANGED ready_state
               /\ ObsTask("delay_ready_chunker_returns", t, <<>>,
                          <<Ev("chunker", Split(tk.pending, tk.sent + 1))>>, FALSE)
          ELSE ReadyAfterChunker(t, tk, "delay_ready_chunker_returns")
       /\ UNCHANGED <<cacheVars, listeners, futures, events, is_bot, sessionVars>>

\* asyncio.wait returned because every chunk future is done
delay_ready_chunks_done(t) ==
    /\ tasks[t].kind = "ready" /\ tasks[t].pc = "wait"
    /\ \A i \in 1..Len(tasks[t].chunks) : Done(futures[tasks[t].chunks[i]])
    /\ ReadyFinish(t, tasks[t], "delay_ready_chunks_done")
    /\ UNCHANGED <<cacheVars, listeners, futures, events, is_bot, sessionVars>>

\* the timeout of the wait propagating out of the coroutine
delay_ready_timeout_aborts(t) ==
    /\ tasks[t].kind = "ready" /\ tasks[t].pc = "wait"
    /\ \E i \in 1..Len(tasks[t].chunks) : ~Done(futures[tasks[t].chunks[i]])
    /\ tasks' = [tasks EXCEPT ![t].pc = "failed"]
    /\ UNCHANGED <<cacheVars, listeners, futures, ready_state, events, is_bot, sessionVars>>
    /\ ObsTask("delay_ready_timeout", t, <<>>, <<>>, TRUE)

\* asyncio.wait returned because the timeout expired with futures pending
delay_ready_timeout(t) ==
    /\ tasks[t].kind = "ready" /\ tasks[t].pc = "wait"
    /\ \E i \in 1..Len(tasks[t].chunks) : ~Done(futures[tasks[t].chunks[i]])
    /\ ReadyFinish(t, tasks[t], "delay_ready_timeout")
    /\ UNCHANGED <<cacheVars, listeners, futures, events, is_bot, sessionVars>>

\* the syncer call returned: dispatch('ready')
delay_ready_syncer_returns(t) ==
    /\ tasks[t].kind = "ready" /\ tasks[t].pc = "sync"
    /\ tasks' = [tasks EXCEPT ![t].pc = "done"]
    /\ UNCHANGED <<cacheVars, listeners, futures, ready_state, events, is_bot, sessionVars>>
    /\ ObsTask("delay_ready_syncer_returns", t, <<Ev("ready", 0)>>, <<>>, FALSE)

----------------------------------------------------------------------------
(* Guild availability: parse_guild_create and the _chunk_and_dispatch coroutine *)

\* _get_create_guild: the guild object the record is applied to (0: a new one)
_get_create_guild(data) ==
    IF data.unavailable = "false" THEN _get_guild(data.id) ELSE 0

\* the event parse_guild_create and _chunk_and_dispatch end with
AvailabilityEvent(unavailable, gid) ==
    IF unavailable = "false" THEN Ev("guild_available", gid) ELSE Ev("guild_join", gid)

parse_guild_create(data) ==
    IF data.unavailable = "true"
    THEN /\ UNCHANGED <<cacheVars, asyncVars, is_bot, sessionVars>>
         /\ ObsA("parse_guild_create", ToInt(data.id), data, <<>>, FALSE, 0)
    ELSE LET existing == _get_create_guild(data)
             guild == IF existing # 0 THEN existing ELSE Len(guild_objs) + 1
             fold == data.large /\ data.unavailable = "false" /\ ready_state.present
         IN /\ guild_objs' = IF existing # 0
                             THEN [guild_objs EXCEPT ![guild] =
                                       _from_data([@ EXCEPT !.unavailable = FALSE], data)]
                             ELSE Append(guild_objs, GuildFromData(data))
            /\ guilds' = IF existing # 0 THEN guilds ELSE Put(guilds, ToInt(data.id), guild)
            /\ guild_order' = IF existing # 0 THEN guild_order
                              ELSE OrderPut(guild_order, ToInt(data.id))
            /\ IF ~data.large
               THEN /\ UNCHANGED <<ready_state, events, tasks>>
                    /\ ObsA("parse_guild_create", ToInt(data.id), data,
                           <<AvailabilityEvent(data.unavailable, ToInt(data.id))>>, FALSE, 0)
               ELSE IF fold
               THEN /\ events' = [events EXCEPT ![ready_state.launch] = FALSE]
                    /\ ready_state' = [ready_state EXCEPT !.guilds = Append(@, guild)]
                    /\ UNCHANGED tasks
                    /\ ObsA("parse_guild_create", ToInt(data.id), data, <<>>, FALSE, 0)
               ELSE /\ tasks' = Append(tasks, NewTask("chunk", guild, data.unavailable, <<>>))
                    /\ UNCHANGED <<ready_state, events>>
                    /\ ObsA("parse_guild_create", ToInt(data.id), data, <<>>, FALSE, 0)
            /\ UNCHANGED <<max_messages, messages, users, user, user_objs,
                           private_channels, private_channels_by_user,
                           listeners, futures, is_bot, sessionVars>>

\* first step of _chunk_and_dispatch: the chunker call
chunk_and_dispatch_start(t) ==
    /\ tasks[t].kind = "chunk" /\ tasks[t].pc = "start"
    /\ tasks' = [tasks EXCEPT ![t].pc = "chunker", ![t].sent = 1]
    /\ UNCHANGED <<cacheVars, listeners, futures, ready_state, events, is_bot, sessionVars>>
    /\ ObsTask("chunk_and_dispatch_start", t, <<>>, <<Ev("chunker", <<tasks[t].guild>>)>>, FALSE)

\* the chunker call returned: register the listeners, wait len(chunks) if any
chunk_and_dispatch_chunker_returns(t) ==
    LET tk == tasks[t]
        r == receive_chunks(listeners, futures, guild_objs[tk.guild].id, chunks_needed(tk.guild))
    IN /\ tk.kind = "chunk" /\ tk.pc = "chunker"
       /\ listeners' = r.listeners
       /\ futures' = r.futures
       /\ IF r.chunks # <<>>
          THEN /\ tasks' = [tasks EXCEPT ![t].pc = "wait", ![t].chunks = r.chunks,
                                         ![t].timeout = Len(r.chunks)]
               /\ ObsTask("chunk_and_dispatch_chunker_returns", t, <<>>, <<>>, FALSE)
          ELSE /\ tasks' = [tasks EXCEPT ![t].pc = "done"]
               /\ ObsTask("chunk_and_dispatch_chunker_returns", t,
                          <<AvailabilityEvent(tk.unavailable, guild_objs[tk.guild].id)>>, <<>>, FALSE)
       /\ UNCHANGED <<cacheVars, ready_state, events, is_bot, sessionVars>>

\* asyncio.wait returned with every chunk future done
chunk_and_dispatch_chunks_done(t) ==
    /\ tasks[t].kind = "chunk" /\ tasks[t].pc = "wait"
    /\ \A i \in 1..Len(tasks[t].chunks) : Done(futures[tasks[t].chunks[i]])
    /\ tasks' = [tasks EXCEPT ![t].pc = "done"]
    /\ UNCHANGED <<cacheVars, listeners, futures, ready_state, events, is_bot, sessionVars>>
    /\ ObsTask("chunk_and_dispatch_chunks_done", t,
               <<AvailabilityEvent(tasks[t].unavailable, guild_objs[tasks[t].guild].id)>>,
               <<>>, FALSE)

\* asyncio.wait returned because the timeout expired
chunk_and_dispatch_timeout(t) ==
    /\ tasks[t].kind = "chunk" /\ tasks[t].pc = "wait"
    /\ \E i \in 1..Len(tasks[t].chunks) : ~Done(futures[tasks[t].chunks[i]])
    /\ tasks' = [tasks EXCEPT ![t].pc = "done"]
    /\ UNCHANGED <<cacheVars, listeners, futures, ready_state, events, is_bot, sessionVars>>
    /\ ObsTask("chunk_and_dispatch_timeout", t,
               <<AvailabilityEvent(tasks[t].unavailable, guild_objs[tasks[t].guild].id)>>,
               <<>>, FALSE)

----------------------------------------------------------------------------
(* Reactions *)

\* _get_reaction_emoji(**data): the name of a unicode emoji; for a custom emoji
\* the loop over self.servers, an attribute ConnectionState does not have
_get_reaction_emoji(e) == IF e.id = 0 THEN [exc |-> FALSE, emoji |-> e.name]
                          ELSE [exc |-> TRUE, emoji |-> e.name]

\* _get_member(channel, id) reads channel.is_private and then channel.server or
\* channel.recipients: whether the read raises AttributeError.  None has no
\* such attribute; the channel classes are not part of this file, which reads
\* channel.guild and tests isinstance(channel, DMChannel) everywhere else
_get_member(channel) == IF channel.found THEN BOOLEAN ELSE {TRUE}

\* utils.get(message.reactions, emoji=emoji): index of the row, 0 for None
get_reaction(rs, emoji) == FirstIdx({ i \in 1..Len(rs) : rs[i].emoji = emoji })

\* Reaction(message=message, emoji=emoji, me=is_me, **data): count starts at 1
NewReaction(emoji, is_me) == [emoji |-> emoji, count |-> 1, me |-> is_me]

\* the reaction list after the add
ReactionsAfterAdd(rs, emoji, is_me) ==
    LET i == get_reaction(rs, emoji)
    IN IF i = 0 THEN Append(rs, NewReaction(emoji, is_me))
       ELSE [rs EXCEPT ![i].count = @ + 1, ![i].me = @ \/ is_me]

\* the reaction list after the remove of an existing row i
ReactionsAfterRemove(rs, i, is_me) ==
    LET count == rs[i].count - 1
        row == [rs[i] EXCEPT !.count = count, !.me = IF is_me THEN FALSE ELSE @]
    IN IF count = 0 THEN SelectIdx(rs, {i}) ELSE [rs EXCEPT ![i] = row]

\* data: message_id, user_id, channel_id (raw, all as the gateway sent them), emoji
parse_message_reaction_add(data) ==
    LET m == _get_message_raw(data.message_id)
        e == _get_reaction_emoji(data.emoji)
        \* data['user_id'] == self.user.id
        user_exc == user = NoUser
        is_me == ~data.user_id.s /\ data.user_id.n = user.id
        channel == get_channel_raw(data.channel_id)
    IN /\ IF m = 0
          THEN /\ UNCHANGED messages
               /\ ObsA("parse_message_reaction_add", ToInt(data.message_id), data, <<>>, FALSE, 0)
          ELSE IF e.exc \/ user_exc
          THEN /\ UNCHANGED messages
               /\ ObsA("parse_message_reaction_add", ToInt(data.message_id), data, <<>>, TRUE, 0)
          ELSE /\ messages' = [messages EXCEPT ![m].reactions =
                                   ReactionsAfterAdd(@, e.emoji, is_me)]
               /\ \E member_exc \in _get_member(channel) :
                      IF member_exc
                      THEN ObsA("parse_message_reaction_add", ToInt(data.message_id), data,
                                <<>>, TRUE, 0)
                      ELSE ObsA("parse_message_reaction_add", ToInt(data.message_id), data,
                                <<Ev("reaction_add", ToInt(data.message_id))>>, FALSE, 0)
       /\ UNCHANGED <<max_messages, users, user, user_objs, guilds, guild_order, guild_objs,
                      private_channels, private_channels_by_user, asyncVars, is_bot, sessionVars>>

\* parse_message_reaction_remove_all: message.reactions.clear()
parse_message_reaction_remove_all(data) ==
    LET m == _get_message_raw(data.message_id)
    IN /\ messages' = IF m # 0 THEN [messages EXCEPT ![m].reactions = <<>>] ELSE messages
       /\ UNCHANGED <<max_messages, users, user, user_objs, guilds, guild_order, guild_objs,
                      private_channels, private_channels_by_user, asyncVars, is_bot, sessionVars>>
       /\ ObsA("parse_message_reaction_remove_all", ToInt(data.message_id), data,
               IF m # 0 THEN <<Ev("reaction_clear", ToInt(data.message_id))>> ELSE <<>>,
               FALSE, 0)

parse_message_reaction_remove(data) ==
    LET m == _get_message_raw(data.message_id)
        e == _get_reaction_emoji(data.emoji)
        i == IF m = 0 THEN 0 ELSE get_reaction(messages[m].reactions, e.emoji)
        user_exc == user = NoUser
        is_me == ~data.user_id.s /\ data.user_id.n = user.id
        channel == get_channel_raw(data.channel_id)
    IN /\ IF m = 0
          THEN /\ UNCHANGED messages
               /\ ObsA("parse_message_reaction_remove", ToInt(data.message_id), data, <<>>, FALSE, 0)
          ELSE IF e.exc
          THEN /\ UNCHANGED messages
               /\ ObsA("parse_message_reaction_remove", ToInt(data.message_id), data, <<>>, TRUE, 0)
          ELSE IF i = 0
          THEN \* log.warning("Unexpected reaction remove"); return
               /\ UNCHANGED messages
               /\ ObsA("parse_message_reaction_remove", ToInt(data.message_id), data, <<>>, FALSE, 0)
          ELSE IF user_exc
          THEN \* count is decremented before self.user.id is read
               /\ messages' = [messages EXCEPT ![m].reactions[i].count = @ - 1]
               /\ ObsA("parse_message_reaction_remove", ToInt(data.message_id), data, <<>>, TRUE, 0)
          ELSE /\ messages' = [messages EXCEPT ![m].reactions =
                                   ReactionsAfterRemove(@, i, is_me)]
               /\ \E member_exc \in _get_member(channel) :
                      IF member_exc
                      THEN ObsA("parse_message_reaction_remove", ToInt(data.message_id), data,
                                <<>>, TRUE, 0)
                      ELSE ObsA("parse_message_reaction_remove", ToInt(data.message_id), data,
                                <<Ev("reaction_remove", ToInt(data.message_id))>>, FALSE, 0)
       /\ UNCHANGED <<max_messages, users, user, user_objs, guilds, guild_order, guild_objs,
                      private_channels, private_channels_by_user, asyncVars, is_bot, sessionVars>>

----------------------------------------------------------------------------
(* The gateway: the records it sends.  It sends READY first in a session,   *)
(* so every other record finds self.user set.                               *)

SessionOpen == user # NoUser

\* a guild record: channel g is the one channel of guild g
GuildData(x, unavailable, shape) ==
    [id |-> x, unavailable |-> unavailable, large |-> shape.large, mc |-> shape.mc,
     channels |-> {ToInt(x)}]

SmallShape == [large |-> FALSE, mc |-> 1]

\* the direct-message channel record
DMData(uid) == PrivateChannel(DMChannel, "dm", uid)

\* a ready record
ReadyData(uid, gs, pms) == [user |-> uid, guilds |-> gs, private_channels |-> pms]

\* the channels a message record can name
KnownChannels == { c \in ChannelIds : get_channel(c).found }

\* parse_guild_create constructs a Guild unless it updates a cached one in place
Constructs(data) == data.unavailable # "true" /\ _get_create_guild(data) = 0

----------------------------------------------------------------------------
(* Scenario: the message buffer at its capacity.  The three channels are    *)
(* set up while the buffer is empty, message m goes to the m-th known       *)
(* channel in turn, and removals happen on a nearly full buffer.            *)

InitBuffer == Init /\ is_bot = TRUE

BufSetup == messages = <<>> /\ KnownChannels # ChannelIds

\* the channel of message m: channels in turn, skipping unknown ones
BufChannel(m) ==
    LET want == ((m - 1) % Cardinality(ChannelIds)) + 1
    IN IF want \in KnownChannels THEN want
       ELSE CHOOSE c \in KnownChannels : \A d \in KnownChannels : c <= d

NearlyFull == Len(messages) + 1 >= max_messages

BufReady ==
    /\ ~SessionOpen
    /\ parse_ready(ReadyData(1, <<>>, <<>>))
    /\ UNCHANGED envVars

BufGuildCreate ==
    \E g \in GuildIds :
        /\ SessionOpen /\ BufSetup /\ g \notin DOMAIN guilds
        /\ parse_guild_create(GuildData(Raw(g, TRUE), "absent", SmallShape))
        /\ UNCHANGED envVars

BufChannelCreate ==
    /\ SessionOpen /\ BufSetup /\ DMChannel \notin DOMAIN private_channels
    /\ parse_channel_create_dm(DMChannel, 1)
    /\ UNCHANGED envVars

BufMessageCreate ==
    /\ SessionOpen /\ KnownChannels # {}
    /\ messages = <<>> => KnownChannels = ChannelIds
    /\ nextMsg <= max_messages + ExtraMsgs
    /\ parse_message_create(nextMsg, BufChannel(nextMsg))
    /\ nextMsg' = nextMsg + 1
    /\ UNCHANGED budget

\* ids a removal names: the oldest, the newest, one not in the buffer
BufIds == IF messages = <<>> THEN {nextMsg}
          ELSE {messages[1].id, messages[Len(messages)].id, nextMsg}

BufMessageDelete ==
    \E mid \in BufIds :
        /\ budget > 0 /\ NearlyFull
        /\ parse_message_delete(mid)
        /\ budget' = budget - 1
        /\ UNCHANGED nextMsg

BufMessageDeleteBulk ==
    /\ budget > 0 /\ NearlyFull
    /\ parse_message_delete_bulk(BufIds)
    /\ budget' = budget - 1
    /\ UNCHANGED nextMsg

BufGuildDelete ==
    \E g \in GuildIds, unavailable \in BOOLEAN :
        /\ budget > 0 /\ NearlyFull
        /\ parse_guild_delete(g, unavailable)
        /\ budget' = budget - 1
        /\ UNCHANGED nextMsg

BufClear ==
    /\ budget > 0 /\ NearlyFull
    /\ clear
    /\ budget' = budget - 1
    /\ UNCHANGED nextMsg

NextBuffer ==
    /\ \/ BufReady
       \/ BufGuildCreate
       \/ BufChannelCreate
       \/ BufMessageCreate
       \/ BufMessageDelete
       \/ BufMessageDeleteBulk
       \/ BufGuildDelete
       \/ BufClear
    /\ Observe

SpecBuffer == InitBuffer /\ [][NextBuffer]_vars

----------------------------------------------------------------------------
(* Scenario: the guild map and the buffer under every interleaving of a few *)
(* records; guilds are small, so no chunking starts.                        *)

InitCache == Init /\ is_bot = TRUE /\ max_messages = MinMessages

CacheReady ==
    /\ ~SessionOpen
    /\ Len(tasks) < MaxTasks
    /\ parse_ready(ReadyData(1, <<>>, <<>>))
    /\ UNCHANGED envVars

CacheGuildCreate ==
    \E x \in RawIds(GuildIds), unavailable \in {"absent", "false"} :
        LET data == GuildData(x, unavailable, SmallShape)
        IN /\ SessionOpen
           /\ Constructs(data) => Len(guild_objs) < MaxGuildObjs
           /\ parse_guild_create(data)
           /\ UNCHANGED envVars

CacheGuildDelete ==
    \E g \in GuildIds, unavailable \in BOOLEAN :
        /\ SessionOpen
        /\ parse_guild_delete(g, unavailable)
        /\ UNCHANGED envVars

CacheChannelCreate ==
    /\ SessionOpen
    /\ parse_channel_create_dm(DMChannel, 1)
    /\ UNCHANGED envVars

CacheMessageCreate ==
    \E c \in KnownChannels :
        /\ SessionOpen
        /\ nextMsg <= MaxMsgs
        /\ parse_message_create(nextMsg, c)
        /\ nextMsg' = nextMsg + 1
        /\ UNCHANGED budget

CacheMessageDelete ==
    \E mid \in 1..MaxMsgs :
        /\ SessionOpen
        /\ parse_message_delete(mid)
        /\ UNCHANGED envVars

NextCache ==
    /\ \/ CacheReady
       \/ CacheGuildCreate
       \/ CacheGuildDelete
       \/ CacheChannelCreate
       \/ CacheMessageCreate
       \/ CacheMessageDelete
    /\ Observe

SpecCache == InitCache /\ [][NextCache]_vars

----------------------------------------------------------------------------
(* Scenario: a session whose maps are all populated and then cleared.       *)

InitSession == Init /\ is_bot = FALSE

SsReady ==
    \E pms \in {<<>>, <<DMData(2)>>} :
        /\ ~SessionOpen
        /\ Len(tasks) < MaxTasks
        /\ parse_ready(ReadyData(1, <<>>, pms))
        /\ UNCHANGED envVars

SsGuildCreate ==
    LET data == GuildData(Raw(1, FALSE), "absent", SmallShape)
    IN /\ SessionOpen
       /\ Constructs(data) => Len(guild_objs) < MaxGuildObjs
       /\ parse_guild_create(data)
       /\ UNCHANGED envVars

SsChannelCreate ==
    /\ SessionOpen
    /\ parse_channel_create_private(3, "group", 1)
    /\ UNCHANGED envVars

SsMessageCreate ==
    \E c \in KnownChannels :
        /\ SessionOpen
        /\ nextMsg <= MaxMsgs
        /\ parse_message_create(nextMsg, c)
        /\ nextMsg' = nextMsg + 1
        /\ UNCHANGED budget

SsCallCreate ==
    \E mid \in 1..MaxMsgs, c \in {DMChannel, 3} :
        /\ SessionOpen
        /\ parse_call_create(mid, c)
        /\ UNCHANGED envVars

SsCallUpdate ==
    \E c \in {DMChannel, 3} :
        /\ SessionOpen
        /\ parse_call_update(c)
        /\ UNCHANGED envVars

SsCallDelete ==
    \E c \in {DMChannel, 3} :
        /\ SessionOpen
        /\ parse_call_delete(c)
        /\ UNCHANGED envVars

SsAddVoiceClient ==
    \E g \in DOMAIN guilds :
        /\ _add_voice_client(g)
        /\ UNCHANGED envVars

SsRemoveVoiceClient ==
    \E g \in GuildIds :
        /\ _remove_voice_client(g)
        /\ UNCHANGED envVars

SsClear ==
    /\ clear
    /\ UNCHANGED envVars

NextSession ==
    /\ \/ SsReady
       \/ SsGuildCreate
       \/ SsChannelCreate
       \/ SsMessageCreate
       \/ SsCallCreate
       \/ SsCallUpdate
       \/ SsCallDelete
       \/ SsAddVoiceClient
       \/ SsRemoveVoiceClient
       \/ SsClear
    /\ Observe

SpecSession == InitSession /\ [][NextSession]_vars

----------------------------------------------------------------------------
(* Scenario: private channels added by the ready payload and by             *)
(* channel-create, removed by channel-delete.  A channel id keeps its kind  *)
(* and its recipient; DM channels 1 and 2 have the same recipient.          *)

PrivateRecords ==
    { PrivateChannel(1, "dm", 2), PrivateChannel(2, "dm", 2),
      PrivateChannel(3, "dm", 3), PrivateChannel(4, "group", 3) }

\* the private_channels lists of a ready record
PrivateLists ==
    {<<>>} \cup { <<r>> : r \in PrivateRecords }
           \cup { <<r, q>> : r \in PrivateRecords, q \in PrivateRecords }

InitPrivate == Init /\ is_bot = FALSE /\ max_messages = MinMessages

PvReady ==
    \E pms \in PrivateLists :
        /\ ~SessionOpen
        /\ Len(tasks) < MaxTasks
        /\ parse_ready(ReadyData(1, <<>>, pms))
        /\ UNCHANGED envVars

PvChannelCreate ==
    \E r \in PrivateRecords :
        /\ SessionOpen
        /\ parse_channel_create_private(r.id, r.kind, r.recipients[1])
        /\ UNCHANGED envVars

PvChannelDelete ==
    \E r \in PrivateRecords :
        /\ SessionOpen
        /\ parse_channel_delete(0, r.id)
        /\ UNCHANGED envVars

\* the recipients of a group channel come and go
PvRecipientAdd ==
    \E c \in DOMAIN private_channels :
        /\ SessionOpen
        /\ private_channels[c].kind = "group"
        /\ Len(private_channels[c].recipients) < MaxRecipients
        /\ parse_channel_recipient_add(c, 2)
        /\ UNCHANGED envVars

PvRecipientRemove ==
    \E c \in DOMAIN private_channels, uid \in {2, 3} :
        /\ SessionOpen
        /\ private_channels[c].kind = "group"
        /\ parse_channel_recipient_remove(c, uid)
        /\ UNCHANGED envVars

PvClear ==
    /\ SessionOpen
    /\ clear
    /\ UNCHANGED envVars

NextPrivate ==
    /\ \/ PvReady
       \/ PvChannelCreate
       \/ PvChannelDelete
       \/ PvRecipientAdd
       \/ PvRecipientRemove
       \/ PvClear
    /\ Observe

SpecPrivate == InitPrivate /\ [][NextPrivate]_vars

----------------------------------------------------------------------------
(* Scenario: a handshake whose pending list grows beyond two batches.  The  *)
(* guilds are folded in one by one while the orchestrator sleeps, then the  *)
(* chunker calls go out and the wait ends by its timeout.                   *)

\* the longest pending list: two full batches and one guild more
MaxFolded == 2 * BatchSize + 1

\* the guilds folded in: large, two chunks each
BatchShape == [large |-> TRUE, mc |-> ChunkSize + 1]

InitBatches == Init /\ is_bot = TRUE /\ max_messages = MinMessages

BtReady ==
    /\ ~SessionOpen
    /\ parse_ready(ReadyData(1, <<>>, <<>>))
    /\ UNCHANGED envVars

BtGuildCreate ==
    /\ SessionOpen
    /\ ready_state.present
    /\ \E t \in 1..Len(tasks) : tasks[t].pc = "sleep"
    /\ Len(guild_objs) < MaxFolded
    /\ parse_guild_create(GuildData(Raw(Len(guild_objs) + 1, FALSE), "false", BatchShape))
    /\ UNCHANGED envVars

BtDelayReadyStart == \E t \in 1..Len(tasks) : delay_ready_start(t) /\ UNCHANGED envVars

BtDelayReadyWake == \E t \in 1..Len(tasks) : delay_ready_wake(t) /\ UNCHANGED envVars

BtDelayReadyChunkerReturns ==
    \E t \in 1..Len(tasks) : delay_ready_chunker_returns(t) /\ UNCHANGED envVars

BtDelayReadyTimeout ==
    \E t \in 1..Len(tasks) : delay_ready_timeout(t) /\ UNCHANGED envVars

NextBatches ==
    /\ \/ BtReady
       \/ BtGuildCreate
       \/ BtDelayReadyStart
       \/ BtDelayReadyWake
       \/ BtDelayReadyChunkerReturns
       \/ BtDelayReadyTimeout
    /\ Observe

SpecBatches == InitBatches /\ [][NextBatches]_vars

----------------------------------------------------------------------------
(* Scenario: the user map.  try_insert_user is called by parse_ready and,   *)
(* through self.ctx, by the entity constructors.                            *)

\* a user id whose User object would be constructed now
NewUserAllowed(uid) == uid \in DOMAIN users \/ user_objs < MaxUserObjs

InitUsers == Init /\ is_bot = TRUE /\ max_messages = MinMessages

UsersReady ==
    \E uid \in UserIds, pms \in {<<>>} \cup { <<DMData(u)>> : u \in UserIds } :
        /\ Len(tasks) < MaxTasks
        /\ NewUserAllowed(uid)
        /\ parse_ready(ReadyData(uid, <<>>, pms))
        /\ UNCHANGED envVars

UsersTryInsertUser ==
    \E uid \in UserIds :
        /\ SessionOpen
        /\ NewUserAllowed(uid)
        /\ try_insert_user(uid)
        /\ UNCHANGED envVars

UsersClear == clear /\ UNCHANGED envVars

UsersChannelCreate ==
    \E uid \in UserIds :
        /\ SessionOpen
        /\ parse_channel_create_dm(DMChannel, uid)
        /\ UNCHANGED envVars

UsersGuildCreate ==
    /\ SessionOpen
    /\ Len(guild_objs) < 1
    /\ parse_guild_create(GuildData(Raw(1, TRUE), "absent", SmallShape))
    /\ UNCHANGED envVars

UsersGuildDelete ==
    /\ SessionOpen
    /\ parse_guild_delete(1, FALSE)
    /\ UNCHANGED envVars

UsersMessageCreate ==
    \E c \in KnownChannels :
        /\ SessionOpen
        /\ nextMsg <= 1
        /\ parse_message_create(nextMsg, c)
        /\ nextMsg' = nextMsg + 1
        /\ UNCHANGED budget

UsersUserUpdate ==
    \E uid \in UserIds :
        /\ SessionOpen
        /\ user_objs < MaxUserObjs
        /\ parse_user_update(uid)
        /\ UNCHANGED envVars

UsersBanRemove ==
    \E uid \in UserIds :
        /\ SessionOpen
        /\ NewUserAllowed(uid)
        /\ parse_guild_ban_remove(1, uid)
        /\ UNCHANGED envVars

NextUsers ==
    /\ \/ UsersReady
       \/ UsersUserUpdate
       \/ UsersBanRemove
       \/ UsersTryInsertUser
       \/ UsersClear
       \/ UsersChannelCreate
       \/ UsersGuildCreate
       \/ UsersGuildDelete
       \/ UsersMessageCreate
    /\ Observe

SpecUsers == InitUsers /\ [][NextUsers]_vars

----------------------------------------------------------------------------
(* Scenario: reactions on buffered messages of guild 1 and of the direct-    *)
(* message channel.                                                          *)

\* a reaction record for message mid of channel cid; the gateway writes all the
\* ids of one record the same way
ReactionData(mid, cid, uid, s, e) ==
    [message_id |-> Raw(mid, s), channel_id |-> Raw(cid, s), user_id |-> Raw(uid, s),
     emoji |-> e]

\* the channel of message mid as the gateway knows it
ChannelOfMessage(mid) ==
    IF _get_message(mid) # 0 THEN messages[_get_message(mid)].channel ELSE DMChannel

ReactionRecords ==
    { ReactionData(mid, ChannelOfMessage(mid), uid, s, e) :
        mid \in 1..MaxReactMsgs, uid \in UserIds, s \in BOOLEAN, e \in Emojis }

\* the row of emoji name in the reactions of message index m, 0 if none
RowOf(m, name) == get_reaction(messages[m].reactions, name)

InitReactions == Init /\ is_bot = TRUE /\ max_messages = MinMessages

RxReady ==
    /\ ~SessionOpen
    /\ parse_ready(ReadyData(1, <<>>, <<DMData(2)>>))
    /\ UNCHANGED envVars

RxGuildCreate ==
    /\ SessionOpen
    /\ guild_objs = <<>>
    /\ parse_guild_create(GuildData(Raw(1, TRUE), "absent", SmallShape))
    /\ UNCHANGED envVars

RxGuildDelete ==
    /\ SessionOpen
    /\ parse_guild_delete(1, FALSE)
    /\ UNCHANGED envVars

RxMessageCreate ==
    \E c \in KnownChannels :
        /\ SessionOpen
        /\ nextMsg <= MaxReactMsgs
        /\ parse_message_create(nextMsg, c)
        /\ nextMsg' = nextMsg + 1
        /\ UNCHANGED budget

RxReactionAdd ==
    \E d \in ReactionRecords :
        /\ SessionOpen
        /\ \A m \in 1..Len(messages) : \A i \in 1..Len(messages[m].reactions) :
               messages[m].reactions[i].count < MaxCount
        /\ parse_message_reaction_add(d)
        /\ UNCHANGED envVars

RxReactionRemove ==
    \E d \in ReactionRecords :
        /\ SessionOpen
        /\ parse_message_reaction_remove(d)
        /\ UNCHANGED envVars

RxReactionRemoveAll ==
    \E d \in ReactionRecords :
        /\ SessionOpen
        /\ parse_message_reaction_remove_all(d)
        /\ UNCHANGED envVars

RxMessageUpdate ==
    \E mid \in 1..MaxReactMsgs, keys \in EditKeys :
        /\ SessionOpen
        /\ parse_message_update(mid, keys)
        /\ UNCHANGED envVars

NextReactions ==
    /\ \/ RxReady
       \/ RxReactionRemoveAll
       \/ RxGuildCreate
       \/ RxGuildDelete
       \/ RxMessageCreate
       \/ RxReactionAdd
       \/ RxReactionRemove
       \/ RxMessageUpdate
    /\ Observe

SpecReactions == InitReactions /\ [][NextReactions]_vars

----------------------------------------------------------------------------
(* Scenario: the listener registry.  Chunk listeners are registered through  *)
(* receive_chunk, their futures cancelled by the caller that holds them, and *)
(* member chunks arrive for cached and for unknown guilds.                   *)

\* the member lists of the chunk records
ChunkLists == { <<>>, <<2>> }

InitListeners == Init /\ is_bot = TRUE /\ max_messages = MinMessages

LsReady ==
    /\ ~SessionOpen
    /\ parse_ready(ReadyData(1, <<>>, <<>>))
    /\ UNCHANGED envVars

LsGuildCreate ==
    \E g \in GuildIds :
        /\ SessionOpen
        /\ g \notin DOMAIN guilds
        /\ Len(guild_objs) < MaxGuildObjs
        /\ parse_guild_create(GuildData(Raw(g, TRUE), "absent", SmallShape))
        /\ UNCHANGED envVars

LsReceiveChunk ==
    \E g \in GuildIds :
        /\ SessionOpen
        /\ Len(futures) < MaxFutures
        /\ receive_chunk(g)
        /\ UNCHANGED envVars

LsCancel ==
    \E f \in 1..Len(futures) :
        /\ cancel(f)
        /\ UNCHANGED envVars

LsMembersChunk ==
    \E g \in GuildIds, members \in ChunkLists :
        /\ SessionOpen
        /\ parse_guild_members_chunk(g, members)
        /\ UNCHANGED envVars

NextListeners ==
    /\ \/ LsReady
       \/ LsGuildCreate
       \/ LsReceiveChunk
       \/ LsCancel
       \/ LsMembersChunk
    /\ Observe

SpecListeners == InitListeners /\ [][NextListeners]_vars

----------------------------------------------------------------------------
(* Scenario: the readiness handshake.  Ready records, guild-create records   *)
(* for small and large guilds and member chunks arrive while the coroutines  *)
(* started by create_task advance one suspension point at a time.            *)

\* the large guild a ready record lists
ListedShape == [large |-> TRUE, mc |-> 2 * ChunkSize + ChunkSize \div 2]

\* the guild lists of the ready records
ReadyGuildLists == { <<>>, <<GuildData(Raw(1, TRUE), "absent", ListedShape)>> }

\* the guilds of the guild-create records: large, two chunks
CreateShapes == { sh \in GuildShapes : sh.mc = ChunkSize + 1 }

InitReady == Init /\ max_messages = MinMessages

RdReady ==
    \E gs \in ReadyGuildLists :
        /\ Len(tasks) < MaxTasks
        /\ parse_ready(ReadyData(1, gs, <<>>))
        /\ UNCHANGED envVars

RdGuildCreate ==
    \E g \in GuildIds, unavailable \in {"absent", "false"}, sh \in CreateShapes :
        LET data == GuildData(Raw(g, FALSE), unavailable, sh)
            fold == sh.large /\ unavailable = "false" /\ ready_state.present
        IN /\ SessionOpen
           /\ Constructs(data) => Len(guild_objs) < MaxGuildObjs
           /\ (sh.large /\ ~fold) => Len(tasks) < MaxTasks
           /\ fold => Len(ready_state.guilds) < MaxPending
           /\ parse_guild_create(data)
           /\ UNCHANGED envVars

RdMembersChunk ==
    \E g \in GuildIds :
        /\ SessionOpen
        /\ g \in DOMAIN guilds
        /\ parse_guild_members_chunk(g, <<2>>)
        /\ UNCHANGED envVars

RdDelayReadyStart == \E t \in 1..Len(tasks) : delay_ready_start(t) /\ UNCHANGED envVars

RdDelayReadyWake == \E t \in 1..Len(tasks) : delay_ready_wake(t) /\ UNCHANGED envVars

RdDelayReadyChunkerReturns ==
    \E t \in 1..Len(tasks) : delay_ready_chunker_returns(t) /\ UNCHANGED envVars

RdDelayReadyChunksDone ==
    \E t \in 1..Len(tasks) : delay_ready_chunks_done(t) /\ UNCHANGED envVars

RdDelayReadyTimeout ==
    \E t \in 1..Len(tasks) : delay_ready_timeout(t) /\ UNCHANGED envVars

RdDelayReadySyncerReturns ==
    \E t \in 1..Len(tasks) : delay_ready_syncer_returns(t) /\ UNCHANGED envVars

RdChunkAndDispatchStart ==
    \E t \in 1..Len(tasks) : chunk_and_dispatch_start(t) /\ UNCHANGED envVars

RdChunkAndDispatchChunkerReturns ==
    \E t \in 1..Len(tasks) : chunk_and_dispatch_chunker_returns(t) /\ UNCHANGED envVars

RdChunkAndDispatchChunksDone ==
    \E t \in 1..Len(tasks) : chunk_and_dispatch_chunks_done(t) /\ UNCHANGED envVars

RdChunkAndDispatchTimeout ==
    \E t \in 1..Len(tasks) : chunk_and_dispatch_timeout(t) /\ UNCHANGED envVars

\* the steps of the coroutines: the scheduler runs a created task, the timers
\* of sleep and wait fire, the chunker and syncer calls return
TaskStep ==
    /\ \/ RdDelayReadyStart
       \/ RdDelayReadyWake
       \/ RdDelayReadyChunkerReturns
       \/ RdDelayReadyChunksDone
       \/ RdDelayReadyTimeout
       \/ RdDelayReadySyncerReturns
       \/ RdChunkAndDispatchStart
       \/ RdChunkAndDispatchChunkerReturns
       \/ RdChunkAndDispatchChunksDone
       \/ RdChunkAndDispatchTimeout
    /\ Observe

NextReady ==
    /\ \/ RdReady
       \/ RdGuildCreate
       \/ RdMembersChunk
       \/ RdDelayReadyStart
       \/ RdDelayReadyWake
       \/ RdDelayReadyChunkerReturns
       \/ RdDelayReadyChunksDone
       \/ RdDelayReadyTimeout
       \/ RdDelayReadySyncerReturns
       \/ RdChunkAndDispatchStart
       \/ RdChunkAndDispatchChunkerReturns
       \/ RdChunkAndDispatchChunksDone
       \/ RdChunkAndDispatchTimeout
    /\ Observe

SpecReady == InitReady /\ [][NextReady]_vars

\* the handshake under a fair scheduler: a coroutine step that stays possible
\* is eventually taken; no record is ever required to arrive
FairReady == SpecReady /\ WF_vars(TaskStep)

----------------------------------------------------------------------------
(* Scenario: records that name entities the cache does not hold.  Guild 1   *)
(* and the private channels may be cached; every handler is fed records for  *)
(* both guild ids and all channel ids.                                       *)

\* the emoji lists of an emojis-update record
EmojiLists == { {}, {"a"} }

\* the role of a role-create record
RoleIds == {1}

InitUnknown == Init /\ is_bot = TRUE /\ max_messages = MinMessages

UnReady ==
    /\ ~SessionOpen
    /\ parse_ready(ReadyData(1, <<>>, <<>>))
    /\ UNCHANGED envVars

UnGuildCreate ==
    /\ SessionOpen
    /\ guild_objs = <<>>
    /\ parse_guild_create(GuildData(Raw(1, TRUE), "absent", SmallShape))
    /\ UNCHANGED envVars

UnChannelCreate ==
    \E kind \in {"dm", "group"} :
        /\ SessionOpen
        /\ private_channels = EmptyDict
        /\ parse_channel_create_private(DMChannel, kind, 2)
        /\ UNCHANGED envVars

UnChannelDelete ==
    \E g \in {0} \cup GuildIds, c \in ChannelIds :
        /\ SessionOpen
        /\ parse_channel_delete(g, c)
        /\ UNCHANGED envVars

UnChannelUpdate ==
    \E kind \in {"group", "text"}, g \in GuildIds, c \in ChannelIds :
        /\ SessionOpen
        /\ parse_channel_update(kind, g, c)
        /\ UNCHANGED envVars

UnRecipientAdd ==
    \E c \in ChannelIds :
        /\ SessionOpen
        /\ c \in DOMAIN private_channels =>
               Len(private_channels[c].recipients) < MaxRecipients
        /\ parse_channel_recipient_add(c, 1)
        /\ UNCHANGED envVars

UnRecipientRemove ==
    \E c \in ChannelIds :
        /\ SessionOpen
        /\ parse_channel_recipient_remove(c, 1)
        /\ UNCHANGED envVars

UnMessageUpdate ==
    \E keys \in EditKeys :
        /\ SessionOpen
        /\ parse_message_update(1, keys)
        /\ UNCHANGED envVars

UnTypingStart ==
    \E c \in ChannelIds :
        /\ SessionOpen
        /\ parse_typing_start(c, 1)
        /\ UNCHANGED envVars

UnResumed ==
    /\ SessionOpen
    /\ parse_resumed
    /\ UNCHANGED envVars

UnMemberAdd ==
    \E g \in GuildIds :
        /\ SessionOpen
        /\ g \in DOMAIN guilds => 1 \notin guild_objs[guilds[g]].members
        /\ parse_guild_member_add(g, 1)
        /\ UNCHANGED envVars

UnMemberUpdate ==
    \E g \in GuildIds, u \in RawIds({1}) :
        /\ SessionOpen
        /\ parse_guild_member_update(g, u)
        /\ UNCHANGED envVars

UnEmojisUpdate ==
    \E g \in GuildIds, es \in EmojiLists :
        /\ SessionOpen
        /\ parse_guild_emojis_update(g, es)
        /\ UNCHANGED envVars

UnGuildSync ==
    \E g \in GuildIds :
        /\ SessionOpen
        /\ parse_guild_sync(g)
        /\ UNCHANGED envVars

UnRoleCreate ==
    \E g \in GuildIds, r \in RoleIds :
        /\ SessionOpen
        /\ g \in DOMAIN guilds => Len(guild_objs[guilds[g]].roles) < MaxRoles
        /\ parse_guild_role_create(g, r)
        /\ UNCHANGED envVars

UnMembersChunk ==
    \E g \in GuildIds, members \in ChunkLists :
        /\ SessionOpen
        /\ parse_guild_members_chunk(g, members)
        /\ UNCHANGED envVars

UnMessageDelete ==
    /\ SessionOpen
    /\ parse_message_delete(1)
    /\ UNCHANGED envVars

UnGuildDelete ==
    \E g \in GuildIds :
        /\ SessionOpen
        /\ parse_guild_delete(g, FALSE)
        /\ UNCHANGED envVars

NextUnknown ==
    /\ \/ UnReady
       \/ UnGuildCreate
       \/ UnChannelCreate
       \/ UnChannelDelete
       \/ UnChannelUpdate
       \/ UnRecipientAdd
       \/ UnRecipientRemove
       \/ UnMessageUpdate
       \/ UnTypingStart
       \/ UnResumed
       \/ UnMemberAdd
       \/ UnMemberUpdate
       \/ UnEmojisUpdate
       \/ UnGuildSync
       \/ UnRoleCreate
       \/ UnMembersChunk
       \/ UnMessageDelete
       \/ UnGuildDelete
    /\ Observe

SpecUnknown == InitUnknown /\ [][NextUnknown]_vars

----------------------------------------------------------------------------
(* Scenario: the entities of a guild.  Guild 1 is cached once; records for   *)
(* its channels, members and roles arrive, and the same records for guild 2, *)
(* which is never cached.                                                    *)

InitGuild == Init /\ is_bot = TRUE /\ max_messages = MinMessages

GdReady ==
    /\ ~SessionOpen
    /\ parse_ready(ReadyData(1, <<>>, <<>>))
    /\ UNCHANGED envVars

GdGuildCreate ==
    /\ SessionOpen
    /\ guild_objs = <<>>
    /\ parse_guild_create(GuildData(Raw(1, TRUE), "absent", SmallShape))
    /\ UNCHANGED envVars

GdChannelCreate ==
    \E g \in GuildIds :
        /\ SessionOpen
        /\ parse_channel_create_guild(g, 2)
        /\ UNCHANGED envVars

GdChannelDelete ==
    \E c \in GuildIds :
        /\ SessionOpen
        /\ 1 \in DOMAIN guilds
        /\ parse_channel_delete(1, c)
        /\ UNCHANGED envVars

GdMemberAdd ==
    \E g \in GuildIds, uid \in UserIds :
        /\ SessionOpen
        /\ g \in DOMAIN guilds => uid \notin guild_objs[guilds[g]].members
        /\ parse_guild_member_add(g, uid)
        /\ UNCHANGED envVars

GdMemberRemove ==
    \E g \in GuildIds, uid \in RawIds(UserIds) :
        /\ SessionOpen
        /\ budget > 0
        /\ parse_guild_member_remove(g, uid)
        /\ budget' = budget - 1
        /\ UNCHANGED nextMsg

GdPresenceUpdate ==
    \E g \in GuildIds, u \in RawIds({2}), username \in BOOLEAN :
        /\ SessionOpen
        /\ parse_presence_update(g, u, username)
        /\ UNCHANGED envVars

GdGuildUpdate ==
    \E g \in GuildIds, sh \in GuildShapes :
        /\ SessionOpen
        /\ parse_guild_update(g, sh)
        /\ UNCHANGED envVars

GdRoleCreate ==
    \E r \in RoleIds :
        /\ SessionOpen
        /\ 1 \in DOMAIN guilds
        /\ Len(guild_objs[guilds[1]].roles) < MaxRoles
        /\ parse_guild_role_create(1, r)
        /\ UNCHANGED envVars

GdRoleDelete ==
    \E g \in GuildIds, r \in RoleIds :
        /\ SessionOpen
        /\ parse_guild_role_delete(g, r)
        /\ UNCHANGED envVars

GdRoleUpdate ==
    \E g \in GuildIds, r \in RoleIds :
        /\ SessionOpen
        /\ parse_guild_role_update(g, r)
        /\ UNCHANGED envVars

GdBanAdd ==
    \E g \in GuildIds, u \in RawIds({1}) :
        /\ SessionOpen
        /\ parse_guild_ban_add(g, u)
        /\ UNCHANGED envVars

GdTypingStart ==
    \E c \in GuildIds, uid \in UserIds :
        /\ SessionOpen
        /\ parse_typing_start(c, uid)
        /\ UNCHANGED envVars

NextGuild ==
    /\ \/ GdReady
       \/ GdGuildCreate
       \/ GdChannelCreate
       \/ GdChannelDelete
       \/ GdMemberAdd
       \/ GdMemberRemove
       \/ GdPresenceUpdate
       \/ GdGuildUpdate
       \/ GdRoleCreate
       \/ GdRoleDelete
       \/ GdRoleUpdate
       \/ GdBanAdd
       \/ GdTypingStart
    /\ Observe

SpecGuild == InitGuild /\ [][NextGuild]_vars

----------------------------------------------------------------------------
(* The whole program: every record and every coroutine step of the scenarios *)

Next ==
    \/ NextBuffer
    \/ NextCache
    \/ NextUsers
    \/ NextReactions
    \/ NextListeners
    \/ NextReady
    \/ NextUnknown
    \/ NextGuild
    \/ NextSession
    \/ NextPrivate
    \/ NextBatches

Spec == Init /\ [][Next]_vars

----------------------------------------------------------------------------
(* C1 *)

\* the buffer never holds more than max(requested, 100) messages
BufferBounded ==
    /\ max_messages >= MinMessages
    /\ Len(messages) <= max_messages

\* message-create appends; on a full buffer it drops exactly the oldest message
\* and keeps the others in order
CreateEvictsOldest ==
    op'.name = "parse_message_create" =>
        LET n == Len(messages)
        IN IF n = max_messages
           THEN /\ Len(messages') = n
                /\ \A i \in 1..(n - 1) : messages'[i] = messages[i + 1]
                /\ messages'[n].id = op'.id
           ELSE /\ Len(messages') = n + 1
                /\ \A i \in 1..n : messages'[i] = messages[i]
                /\ messages'[n + 1].id = op'.id

\* with no removal, after messages 1..k the buffer holds the last
\* min(k, capacity) of them in arrival order
LastMessagesKept ==
    budget = MaxRemovals =>
        LET k == nextMsg - 1
            n == IF k <= max_messages THEN k ELSE max_messages
        IN /\ Len(messages) = n
           /\ \A i \in 1..n : messages[i].id = k - n + i

\* C1: the buffer holds at most C = max(requested, 100) messages after any
\* sequence of creates, deletes, bulk deletes, guild deletes and clears; a create
\* on a full buffer evicts exactly the oldest message; m1..m_{C+5} appended to an
\* empty buffer leave m6..m_{C+5} in arrival order
C1_BufferCapacity ==
    /\ [](BufferBounded /\ LastMessagesKept)
    /\ [][CreateEvictsOldest]_vars

\* m1..m_{C+5} were appended and the buffer holds m6..m_{C+5}
C1_Witness ==
    /\ op.name = "parse_message_create"
    /\ budget = MaxRemovals
    /\ nextMsg = max_messages + 6
    /\ Len(messages) = max_messages
    /\ messages[1].id = 6
    /\ messages[max_messages].id = max_messages + 5

----------------------------------------------------------------------------
(* C2 *)

\* the user map is keyed by the id of the user it holds, one object per id
UsersKeyed ==
    /\ \A u \in DOMAIN users : users[u].id = u /\ users[u].obj \in 1..user_objs
    /\ \A u, v \in DOMAIN users : users[u].obj = users[v].obj => u = v

\* a call with id u and the object it returned
FetchedOrInserted(u, obj) ==
    IF u \in DOMAIN users
    THEN obj = users[u].obj /\ users' = users
    ELSE /\ DOMAIN users' = DOMAIN users \cup {u}
         /\ users'[u].obj = obj
         /\ obj > user_objs

UserCallsStable ==
    /\ op'.name = "try_insert_user" => FetchedOrInserted(op'.id, ret')
    /\ op'.name = "parse_ready" => FetchedOrInserted(op'.id, user'.obj)
    /\ op'.name # "clear" =>
           \A u \in DOMAIN users : u \in DOMAIN users' /\ users'[u] = users[u]

\* C2: with no clear() in between, every try_insert_user call with a given id
\* returns the object the first call with that id created, the user map has one
\* entry per id seen, and only clear() removes an entry
C2_TryInsertUserIdempotent == []UsersKeyed /\ [][UserCallsStable]_vars

\* a call returned an object that an earlier call had constructed
C2_Witness ==
    /\ op.name = "try_insert_user"
    /\ op.id \in DOMAIN users
    /\ ret = users[op.id].obj
    /\ ret < user_objs
    /\ Cardinality(DOMAIN users) = 2

----------------------------------------------------------------------------
(* C3 *)

\* the messages of the buffer that do not hold the cached Guild object of id g
OfOtherObject(g) == SelectSeq(messages, LAMBDA m : m.guild # guilds[g])

\* the messages of the buffer that hold no Guild object of id g
OfOtherId(g) == SelectSeq(messages, LAMBDA m : m.guild = 0 \/ guild_objs[m.guild].id # g)

\* C3: parse_guild_delete for a cached guild G not marked unavailable removes
\* from the buffer exactly the messages whose guild is G, keeps the others in
\* order, removes G from the guild map and dispatches 'guild_remove' once.
\* The messages of G are those that hold the cached object; the messages of
\* an object the cache held for the same id before go with them or stay, all
\* of them alike, as the comparison of Guild objects decides.
GuildDeletePurges ==
    (/\ op'.name = "parse_guild_delete"
     /\ op'.id \in DOMAIN guilds
     /\ op'.arg = FALSE)
    => /\ messages' \in {OfOtherObject(op'.id), OfOtherId(op'.id)}
       /\ DOMAIN guilds' = DOMAIN guilds \ {op'.id}
       /\ guild_order' = SelectSeq(guild_order, LAMBDA g : g # op'.id)
       /\ \A g \in DOMAIN guilds' : guilds'[g] = guilds[g]
       /\ dispatched' = <<Ev("guild_remove", op'.id)>>
       /\ ~raised'

C3_GuildDeletePurgesMessages == [][GuildDeletePurges]_vars

\* a guild delete took messages out and left one of another guild and a private one
C3_Witness ==
    /\ op.name = "parse_guild_delete"
    /\ op.arg = FALSE
    /\ dispatched = <<Ev("guild_remove", op.id)>>
    /\ removed # <<>>
    /\ \E i, j \in 1..Len(messages) :
           /\ messages[i].guild = 0
           /\ messages[j].guild # 0
           /\ guild_objs[messages[j].guild].id # op.id


----------------------------------------------------------------------------
(* C4 *)

\* the step is process_listeners(chunk, G, result) for the cached guild G
ChunkStep ==
    /\ op'.name = "parse_guild_members_chunk"
    /\ op'.id \in DOMAIN guilds

\* listener i of the registry is not cancelled and was registered for guild g
Matching(i, g) ==
    /\ futures[listeners[i].future].st = "pending"
    /\ listeners[i].guild_id = g

\* the listeners of ls whose future is pending in fs, in registry order
PendingOf(ls, fs) == SelectSeq(ls, LAMBDA l : fs[l.future].st = "pending")

\* exactly the future of the earliest matching listener is fulfilled with the
\* result, and the other pending listeners stay registered, pending, in order
FirstMatchFulfilled ==
    ChunkStep =>
        LET g == op'.id
            hits == {i \in 1..Len(listeners) : Matching(i, g)}
        IN IF hits = {}
           THEN /\ futures' = futures
                /\ PendingOf(listeners', futures') = PendingOf(listeners, futures)
           ELSE LET first == CHOOSE i \in hits : \A j \in hits : i <= j
                    f == listeners[first].future
                IN /\ futures'[f] = [st |-> "result", val |-> op'.arg, gid |-> g]
                   /\ \A h \in 1..Len(futures) : h # f => futures'[h] = futures[h]
                   /\ Len(futures') = Len(futures)
                   /\ PendingOf(listeners', futures') =
                          PendingOf(SelectIdx(listeners, {first}), futures)

\* C4: process_listeners(chunk, G, result) fulfills exactly one handle with the
\* result, that of the earliest-registered non-cancelled listener registered
\* for G's id; every listener for another guild and every later listener for G
\* keeps its pending handle and its place in the registry order.
C4_FirstMatchOnly == [][FirstMatchFulfilled]_vars

\* a chunk for guild g fulfilled one future while a later listener for g and a
\* listener for another guild are still registered and pending
C4_Witness ==
    /\ op.name = "parse_guild_members_chunk"
    /\ \E f \in 1..Len(futures) :
           /\ futures[f].st = "result" /\ futures[f].gid = op.id /\ futures[f].val = op.arg
           /\ op.arg # 0
           /\ \E i, j \in 1..Len(listeners) :
                  /\ listeners[i].guild_id = op.id /\ listeners[i].future > f
                  /\ futures[listeners[i].future].st = "pending"
                  /\ listeners[j].guild_id # op.id
                  /\ futures[listeners[j].future].st = "pending"

----------------------------------------------------------------------------
(* C5 *)

\* task t is a handshake whose ready record listed exactly one large guild of
\* 2500 members
ListsOneLargeGuild(t) ==
    /\ tasks[t].kind = "ready"
    /\ Len(tasks[t].listed) = 1
    /\ tasks[t].listed[1].large
    /\ tasks[t].listed[1].mc = ListedShape.mc

\* the chunk futures task t registered and waited on for guild id g
ChunksFor(t, g) == { i \in 1..Len(tasks[t].chunks) : futures[tasks[t].chunks[i]].gid = g }

\* a handshake past its wait registered ceil(2500 / 1000) listeners for the guild
ListedGuildChunked ==
    \A t \in 1..Len(tasks) :
        (ListsOneLargeGuild(t) /\ tasks[t].pc \in {"sync", "done"}) =>
            Cardinality(ChunksFor(t, ToInt(tasks[t].listed[1].id))) =
                Ceil(ListedShape.mc, ChunkSize)

\* 'ready' is dispatched by the step that finishes a handshake, and a finished
\* handshake takes no further step
ReadyOnce ==
    /\ (\E i \in 1..Len(dispatched') : dispatched'[i].name = "ready") =>
           \E t \in 1..Len(tasks) : tasks[t].pc # "done" /\ tasks'[t].pc = "done"
    /\ \A t \in 1..Len(tasks) : tasks[t].pc = "done" => tasks'[t] = tasks[t]

\* C5: given a ready record that lists one large guild with member count 2500
\* the handshake registers and waits on exactly 3 chunk listeners for that
\* guild before it reaches Ready, and it dispatches 'ready' exactly once.
C5_Original == []ListedGuildChunked /\ [][ReadyOnce]_vars

----------------------------------------------------------------------------
(* C6 *)

\* the step is a guild-create with unavailable=false that directly follows a
\* guild-create without the unavailable field for the same id
ReavailableStep ==
    /\ op.name = "parse_guild_create" /\ op.arg.unavailable = "absent"
    /\ op'.name = "parse_guild_create" /\ op'.arg.unavailable = "false"
    /\ op'.id = op.id

\* C6: a guild-create without the unavailable field for id g followed by a
\* guild-create with unavailable=false for g leaves one guild-map entry for g,
\* the object the first call inserted, updated in place with unavailable =
\* false, and the second call results in 'guild_available' for that guild
\* (at once, or from the chunking coroutine it starts), not in 'guild_join'.
C6_Original ==
    [][ReavailableStep =>
         /\ op.id \in DOMAIN guilds'
         /\ guilds'[op.id] = guilds[op.id]
         /\ Len(guild_objs') = Len(guild_objs)
         /\ ~guild_objs'[guilds[op.id]].unavailable
         /\ \/ dispatched' = <<Ev("guild_available", op.id)>>
            \/ /\ Len(tasks') = Len(tasks) + 1
               /\ tasks'[Len(tasks')].kind = "chunk"
               /\ tasks'[Len(tasks')].guild = guilds[op.id]
               /\ tasks'[Len(tasks')].unavailable = "false"]_vars

----------------------------------------------------------------------------
(* C7 *)

\* the message index the id of a reaction record names, 0 if not buffered
ReactionMessage(data) == _get_message(ToInt(data.message_id))

\* every message holds at most one row per emoji, every count is at least 1
RowsWellFormed ==
    \A m \in 1..Len(messages) :
        LET rs == messages[m].reactions
        IN \A i, j \in 1..Len(rs) :
               /\ rs[i].count >= 1
               /\ rs[i].emoji = rs[j].emoji => i = j

\* an add creates the row with count 1 or increments the one row by 1
AddCounts ==
    (op'.name = "parse_message_reaction_add" /\ ReactionMessage(op'.arg) # 0) =>
        LET m == ReactionMessage(op'.arg)
            before == messages[m].reactions
            after == messages'[m].reactions
            i == get_reaction(before, op'.arg.emoji.name)
            j == get_reaction(after, op'.arg.emoji.name)
        IN /\ j # 0
           /\ IF i = 0
              THEN after[j].count = 1 /\ Len(after) = Len(before) + 1
              ELSE after[j].count = before[i].count + 1 /\ Len(after) = Len(before)

\* a remove decrements the row by 1 and deletes it in the step that reaches 0
RemoveCounts ==
    (/\ op'.name = "parse_message_reaction_remove"
     /\ ReactionMessage(op'.arg) # 0
     /\ RowOf(ReactionMessage(op'.arg), op'.arg.emoji.name) # 0) =>
        LET m == ReactionMessage(op'.arg)
            before == messages[m].reactions
            after == messages'[m].reactions
            i == get_reaction(before, op'.arg.emoji.name)
            j == get_reaction(after, op'.arg.emoji.name)
        IN IF before[i].count = 1
           THEN j = 0 /\ Len(after) = Len(before) - 1
           ELSE j # 0 /\ after[j].count = before[i].count - 1 /\ Len(after) = Len(before)

\* C7: after any sequence of reaction adds and removes on buffered messages
\* each message holds at most one row per emoji and every count is at least 1:
\* an add on a fresh (message, emoji) pair creates a row with count 1, a
\* further add increments it by 1 without a second row, a remove decrements
\* it by 1 and the row is deleted in the step in which its count reaches 0.
C7_Original == []RowsWellFormed /\ [][AddCounts /\ RemoveCounts]_vars

----------------------------------------------------------------------------
(* C8 *)

\* C8: a reaction-remove for a buffered message that has no row for the given
\* emoji raises nothing, leaves the reaction list and every other cache
\* structure unchanged and dispatches nothing.
C8_Original ==
    [][(/\ op'.name = "parse_message_reaction_remove"
        /\ ReactionMessage(op'.arg) # 0
        /\ RowOf(ReactionMessage(op'.arg), op'.arg.emoji.name) = 0) =>
           /\ ~raised'
           /\ dispatched' = <<>>
           /\ UNCHANGED <<cacheVars, asyncVars>>]_vars

----------------------------------------------------------------------------
(* C9 *)

\* the step ran a process_listeners pass for the chunk class to its end
PassStep == op'.name = "parse_guild_members_chunk" /\ ~raised'

\* listener i of the registry holds a cancelled future
Cancelled(i) == futures[listeners[i].future].st = "cancelled"

\* the listener that holds future f is gone from the registry after the step
Unregistered(f) == \A k \in 1..Len(listeners') : listeners'[k].future # f

\* a cancelled future is never given a result or an exception
CancelledStays ==
    \A f \in 1..Len(futures) :
        futures[f].st = "cancelled" => futures'[f] = futures[f]

\* an earlier-registered, non-cancelled listener matches the guild of the pass
EarlierMatch(i) ==
    /\ op'.id \in DOMAIN guilds
    /\ \E j \in 1..(i - 1) : Matching(j, op'.id)

\* C9 as stated: a cancelled listener is never fulfilled or failed, and the
\* next process_listeners pass for its class removes it from the registry
\* whatever is registered before it, whether or not one of those matches.
C9_Original ==
    [][/\ CancelledStays
       /\ PassStep => \A i \in 1..Len(listeners) :
                          Cancelled(i) => Unregistered(listeners[i].future)]_vars

\* C9: a cancelled listener is never fulfilled or failed; a process_listeners
\* pass for its class removes it from the registry exactly when no
\* earlier-registered non-cancelled listener matches in that pass (the pass
\* stops at the first match and prunes only what it visited).
C9_CancelledPruned ==
    [][/\ CancelledStays
       /\ PassStep => \A i \in 1..Len(listeners) :
                          Cancelled(i) =>
                              (Unregistered(listeners[i].future) <=> ~EarlierMatch(i))]_vars

\* a pass pruned a cancelled listener although a listener registered before it
\* is still in the registry
C9_Witness ==
    /\ op.name = "parse_guild_members_chunk" /\ ~raised
    /\ \E f \in 1..Len(futures) :
           /\ futures[f].st = "cancelled"
           /\ \A k \in 1..Len(listeners) : listeners[k].future # f
           /\ \E k \in 1..Len(listeners) : listeners[k].future < f

----------------------------------------------------------------------------
(* C10 *)

\* a ready record was handled: parse_ready returned and left its coroutine
ReadyHandled == op.name = "parse_ready" /\ ~raised

\* the step dispatched 'ready'
ReadyDispatched == \E i \in 1..Len(dispatched) : dispatched[i].name = "ready"

\* the wait of a handshake is bounded by 30 per chunk future it waits on
WaitBounded ==
    \A t \in 1..Len(tasks) :
        (tasks[t].kind = "ready" /\ tasks[t].pc = "wait") =>
            /\ tasks[t].chunks # <<>>
            /\ tasks[t].timeout = ChunkWait * Len(tasks[t].chunks)

\* C10: after every handled ready record 'ready' is eventually dispatched,
\* assuming only that the timers fire and the chunker and syncer calls return;
\* the wait for the chunk listeners is bounded by 30 per outstanding chunk
\* wait, and when chunk records never arrive or arrive in part the timeout is
\* swallowed and the handshake still finishes.
C10_ReadyEventually == []WaitBounded /\ (ReadyHandled ~> ReadyDispatched)

\* a handshake dispatched 'ready' after its wait timed out with one chunk of
\* the guild arrived and the other one still pending
C10_Witness ==
    /\ ReadyDispatched
    /\ \E t \in 1..Len(tasks) :
           /\ tasks[t].kind = "ready" /\ tasks[t].pc = "done"
           /\ \E i, j \in 1..Len(tasks[t].chunks) :
                  /\ futures[tasks[t].chunks[i]].st = "result"
                  /\ futures[tasks[t].chunks[j]].st = "pending"


----------------------------------------------------------------------------
(* C11 *)

\* the handlers that look a guild up by the guild id of the record
GuildHandlers ==
    {"parse_guild_member_add", "parse_guild_member_update", "parse_guild_role_create",
     "parse_guild_emojis_update", "parse_guild_sync", "parse_guild_members_chunk",
     "parse_guild_delete"}

\* the step handled a record that names an entity the cache does not hold
UnknownEntityStep ==
    \/ op'.name \in GuildHandlers /\ op'.id \notin DOMAIN guilds
    \/ /\ op'.name = "parse_channel_delete"
       /\ op'.arg \notin DOMAIN guilds
       /\ op'.id \notin DOMAIN private_channels
    \/ /\ op'.name \in {"parse_channel_recipient_add", "parse_channel_recipient_remove"}
       /\ op'.id \notin DOMAIN private_channels
    \/ /\ op'.name = "parse_channel_update"
       /\ op'.arg = "group"
       /\ op'.id \notin DOMAIN private_channels
    \/ /\ op'.name \in {"parse_message_delete", "parse_message_update"}
       /\ _get_message(op'.id) = 0

\* C11: a handler given a record that refers to an entity not in the cache
\* raises nothing, leaves all cache state unchanged and dispatches nothing.
C11_Original ==
    [][UnknownEntityStep =>
         /\ ~raised'
         /\ dispatched' = <<>>
         /\ UNCHANGED <<cacheVars, asyncVars, sessionVars>>]_vars


----------------------------------------------------------------------------
(* C12 *)

\* handshake t enters the state in which it awaits the syncer
EntersSync(t) == tasks[t].kind = "ready" /\ tasks[t].pc # "sync" /\ tasks'[t].pc = "sync"

\* handshake t finishes: the step that dispatches 'ready'
EntersDone(t) == tasks[t].kind = "ready" /\ tasks[t].pc # "done" /\ tasks'[t].pc = "done"

\* a step calls the syncer at most once and only as a non-bot handshake enters
\* its sync state; it passes the ids of all cached guilds, each once, in the
\* order the guild map iterates, and it comes after the chunk wait (or there
\* was nothing to wait for)
SyncerOnceAfterWait ==
    /\ Cardinality(SyncerCalls(called')) <= 1
    /\ SyncerCalls(called') # {} <=> \E t \in 1..Len(tasks) : EntersSync(t)
    /\ \A t \in 1..Len(tasks) : EntersSync(t) =>
           /\ ~is_bot
           /\ tasks[t].pc = "wait" \/ tasks'[t].chunks = <<>>
           /\ called' = <<called'[1]>>
           /\ Len(called'[1].arg) = Cardinality(DOMAIN guilds)
           /\ { called'[1].arg[i] : i \in 1..Len(called'[1].arg) } = DOMAIN guilds
           /\ called'[1].arg = guild_order

\* a handshake awaits the syncer once: from its sync state it only finishes,
\* and a finished handshake stays finished
SyncStateLeftOnce ==
    \A t \in 1..Len(tasks) :
        /\ tasks[t].pc = "sync" => tasks'[t].pc \in {"sync", "done"}
        /\ tasks[t].pc \in {"done", "failed"} => tasks'[t].pc = tasks[t].pc

\* 'ready' is dispatched as a handshake finishes: after the syncer returned for
\* a non-bot identity, without any syncer call for a bot
ReadyAfterSyncer ==
    /\ (\E i \in 1..Len(dispatched') : dispatched'[i].name = "ready") <=>
           \E t \in 1..Len(tasks) : EntersDone(t)
    /\ \A t \in 1..Len(tasks) : EntersDone(t) => (tasks[t].pc = "sync" <=> ~is_bot)

\* handshake t has ended: its coroutine returned or was left by an exception
Ended(t) == tasks[t].kind = "ready" /\ tasks[t].pc \in {"done", "failed"}

\* the number of syncer calls a handshake makes under the identity of the session
CallsDue == IF is_bot THEN 0 ELSE 1

\* no handshake has called the syncer more often than its identity asks for,
\* and a handshake that has ended has called it exactly that often
CalledAsDue ==
    \A t \in 1..Len(tasks) :
        tasks[t].kind = "ready" =>
            /\ syncer_calls[t] <= CallsDue
            /\ Ended(t) => syncer_calls[t] = CallsDue

\* C12: in each handshake the syncer is invoked exactly once for a non-bot
\* identity and never for a bot; it is passed the ids of all guilds cached at
\* that moment, is invoked only after the chunk wait has finished, and 'ready'
\* is dispatched only after the syncer call has completed.
C12_Original ==
    /\ []CalledAsDue
    /\ [][SyncerOnceAfterWait /\ SyncStateLeftOnce /\ ReadyAfterSyncer]_vars


----------------------------------------------------------------------------
(* C13 *)

\* guild id g is on the pending-chunk list of the ReadyState after the step
PendingAfter(g) ==
    \E k \in 1..Len(ready_state'.guilds) : guild_objs'[ready_state'.guilds[k]].id = g

\* C13: when a ready record is handled every guild listed in its payload is
\* inserted into the guild map; the large ones are appended to the pending
\* list of the ReadyState, the others are cached but not appended.
C13_Original ==
    [][op'.name = "parse_ready" =>
         \A i \in 1..Len(op'.arg.guilds) :
             LET g == op'.arg.guilds[i]
             IN /\ ToInt(g.id) \in DOMAIN guilds'
                /\ g.large <=> PendingAfter(ToInt(g.id))]_vars


----------------------------------------------------------------------------
(* C14 *)

\* the step is a guild-delete marked unavailable for a cached guild
UnavailableStep ==
    /\ op'.name = "parse_guild_delete"
    /\ op'.arg = TRUE
    /\ op'.id \in DOMAIN guilds

\* the flag is set on the cached object, nothing is evicted
MarkedNotEvicted ==
    UnavailableStep =>
        LET guild == guilds[op'.id]
        IN /\ guild_objs' = [guild_objs EXCEPT ![guild].unavailable = TRUE]
           /\ dispatched' = <<Ev("guild_unavailable", op'.id)>>
           /\ ~raised'
           /\ UNCHANGED <<guilds, guild_order, messages, users, private_channels,
                          private_channels_by_user>>

\* C14: parse_guild_delete for a cached guild marked unavailable sets the
\* guild's unavailable flag, dispatches 'guild_unavailable' exactly once and
\* leaves the guild map, the message buffer, the user map and the
\* private-channel maps unchanged.
C14_UnavailableKeepsCache == [][MarkedNotEvicted]_vars

\* a guild with buffered messages was marked unavailable and is still cached
C14_Witness ==
    /\ op.name = "parse_guild_delete" /\ op.arg = TRUE
    /\ op.id \in DOMAIN guilds
    /\ guild_objs[guilds[op.id]].unavailable
    /\ \E m \in 1..Len(messages) : messages[m].guild = guilds[op.id]
    /\ private_channels # EmptyDict


----------------------------------------------------------------------------
(* C15 *)

\* everything clear() rebinds is empty afterwards, the capacity is kept
ClearedAll ==
    op'.name = "clear" =>
        /\ users' = EmptyDict
        /\ guilds' = EmptyDict
        /\ private_channels' = EmptyDict
        /\ private_channels_by_user' = EmptyDict
        /\ calls' = EmptyDict
        /\ voice_clients' = EmptyDict
        /\ user' = NoUser
        /\ messages' = <<>>
        /\ max_messages' = max_messages
        /\ max_messages' \in { Capacity(r) : r \in Requested }

\* C15: clear() in any reachable state leaves the user map, the guild map,
\* the private-channel map, the DM reverse index, the call map and the
\* voice-client map empty, resets the local user, and leaves the message
\* buffer empty with its capacity still the configured max_messages.
C15_ClearResets == [][ClearedAll]_vars

\* clear ran on a session that held calls, voice clients, private channels,
\* users, guilds and buffered messages
C15_Witness ==
    /\ op.name = "clear"
    /\ op.arg.calls # {} /\ op.arg.voice_clients # {} /\ op.arg.private_channels # {}
    /\ removed # <<>>
    /\ user_objs > 0 /\ Len(guild_objs) > 0
    /\ calls = EmptyDict /\ voice_clients = EmptyDict


----------------------------------------------------------------------------
(* C16 *)

\* the reverse-index keys whose entry is the channel c
KeysOf(c) == { u \in DOMAIN private_channels_by_user : private_channels_by_user[u] = c }

\* every cached DM channel has exactly one entry, under its recipient's id
DMIndexed ==
    \A c \in DOMAIN private_channels :
        private_channels[c].kind = "dm" => KeysOf(c) = {private_channels[c].recipient}

\* every entry names a DM channel that is still cached
IndexLive ==
    \A u \in DOMAIN private_channels_by_user :
        LET c == private_channels_by_user[u]
        IN c \in DOMAIN private_channels /\ private_channels[c].kind = "dm"

\* C16: after any sequence of private-channel adds and removes (ready
\* payload, channel-create, channel-delete) every DM channel in the
\* private-channel map has exactly one reverse-index entry, keyed by its
\* recipient's user id and pointing to it, and every reverse-index entry
\* points to a DM channel still in the private-channel map.
C16_Original == DMIndexed /\ IndexLive


----------------------------------------------------------------------------
(* C17 *)

\* the argument of the pass the chunk record op'.id leads to: the cached guild
\* or None
PassArgument == IF op'.id \in DOMAIN guilds THEN guilds[op'.id] ELSE 0

\* the step ran a pass whose argument makes the predicates raise: a chunk
\* record without members for a guild that is not cached
RaisingPass ==
    /\ op'.name = "parse_guild_members_chunk"
    /\ op'.arg = 0
    /\ op'.id \notin DOMAIN guilds

\* future f is held by a registered listener whose future is not cancelled
HeldPending(f) ==
    \E i \in 1..Len(listeners) : listeners[i].future = f /\ ~Cancelled(i)

\* every listener whose predicate raised has the failure on its future and is
\* gone; no other future is touched, and the pass itself raises nothing
FailureStored ==
    RaisingPass =>
        /\ ~raised'
        /\ \A i \in 1..Len(listeners) :
               ~Cancelled(i) =>
                   /\ Predicate(listeners[i], PassArgument) = "raise"
                   /\ futures'[listeners[i].future].st = "exception"
                   /\ Unregistered(listeners[i].future)
        /\ \A f \in 1..Len(futures) : ~HeldPending(f) => futures'[f] = futures[f]

\* a listener whose predicate returned false keeps its pending future and its
\* place in the registry
NonMatchingKept ==
    op'.name = "parse_guild_members_chunk" =>
        \A i \in 1..Len(listeners) :
            (~Cancelled(i) /\ Predicate(listeners[i], PassArgument) = "fail") =>
                /\ futures'[listeners[i].future] = futures[listeners[i].future]
                /\ ~Unregistered(listeners[i].future)

\* C17: when a listener's predicate raises during process_listeners the
\* failure is stored on that listener's future only and the listener is
\* removed; the pass raises nothing, goes on with the remaining listeners,
\* and every other non-matching listener keeps a pending future and stays
\* registered.
C17_PredicateFailureContained == [][FailureStored /\ NonMatchingKept]_vars

\* a pass stored a failure on two listeners' futures, one after the other, and
\* left a cancelled future as it was
C17_Witness ==
    /\ op.name = "parse_guild_members_chunk" /\ op.arg = 0 /\ ~raised
    /\ op.id \notin DOMAIN guilds
    /\ listeners = <<>>
    /\ \E f \in 1..Len(futures), h \in 1..Len(futures) :
           /\ f < h
           /\ futures[f].st = "exception" /\ futures[h].st = "exception"
    /\ \E f \in 1..Len(futures) : futures[f].st = "cancelled"


----------------------------------------------------------------------------
(* C18 *)

\* the step takes the _delay_ready coroutine t out of the debounce loop and on
\* to the chunk requests
LeavesLoop(t) ==
    /\ tasks[t].kind = "ready"
    /\ tasks[t].pc \in {"start", "sleep"}
    /\ tasks'[t].pc \in {"chunker", "wait", "sync", "done"}

\* C18: the orchestrator leaves the debounce loop and issues its first chunk
\* request only after one full 2-unit timer wait during which no guild-create
\* for a large guild was folded into the ReadyState; a guild folded in during
\* a timer wait causes at least one more full wait before chunking starts.
C18_Original ==
    [][\A t \in 1..Len(tasks) :
           LeavesLoop(t) => tasks[t].pc = "sleep" /\ ~disturbed[t]]_vars


----------------------------------------------------------------------------
(* C19 *)

\* the step handled a guild-create record for a large guild, unavailable
\* false or absent, while a ReadyState was active
LargeCreateInHandshake ==
    /\ op'.name = "parse_guild_create"
    /\ op'.arg.large
    /\ op'.arg.unavailable \in {"false", "absent"}
    /\ ready_state.present

\* the guild is appended to the pending list and the gate is cleared; nothing
\* is dispatched and no coroutine is started
FoldedIn ==
    /\ op'.id \in DOMAIN guilds'
    /\ ready_state' = [ready_state EXCEPT !.guilds = Append(@, guilds'[op'.id])]
    /\ ~events'[ready_state.launch]
    /\ dispatched' = <<>>
    /\ tasks' = tasks

\* C19: while a ReadyState is active every guild-create record for
\* a large guild, unavailable false or absent, appends the guild to the
\* pending list and clears the gate, dispatches neither 'guild_join' nor
\* 'guild_available' and starts no independent chunk-and-dispatch task.
C19_Original == [][LargeCreateInHandshake => FoldedIn]_vars


----------------------------------------------------------------------------
(* C20 *)

\* the step is handshake t issuing its first chunker call
FirstChunkerCall(t) ==
    /\ tasks[t].kind = "ready"
    /\ tasks[t].pc \in {"start", "sleep"}
    /\ tasks'[t].pc = "chunker"
    /\ called' # <<>>

\* ceil(memberCount / 1000) summed over the entries of the pending list gs
\* that are the guild with id g
RECURSIVE ChunksOwed(_, _)
ChunksOwed(gs, g) ==
    IF gs = <<>> THEN 0
    ELSE LET n == Len(gs)
             rest == ChunksOwed(SubSeq(gs, 1, n - 1), g)
         IN IF guild_objs[gs[n]].id = g
            THEN rest + Ceil(guild_objs[gs[n]].mc, ChunkSize)
            ELSE rest

\* the futures of handshake t, after the step, whose listener is in the
\* registry with a predicate for guild id g and a pending future
RegisteredFor(t, g) ==
    { i \in 1..Len(tasks'[t].chunks) :
        LET f == tasks'[t].chunks[i]
        IN /\ futures'[f].st = "pending"
           /\ \E k \in 1..Len(listeners') :
                  listeners'[k].future = f /\ listeners'[k].guild_id = g }

\* when the first chunker call goes out, the listeners of every pending guild
\* are already in the registry, ceil(memberCount / 1000) per entry
ListenersBeforeRequest ==
    \A t \in 1..Len(tasks) :
        FirstChunkerCall(t) =>
            /\ tasks'[t].pending # <<>>
            /\ \A k \in 1..Len(tasks'[t].pending) :
                   LET g == guild_objs[tasks'[t].pending[k]].id
                   IN Cardinality(RegisteredFor(t, g)) = ChunksOwed(tasks'[t].pending, g)

\* a handshake whose requests are out has no pending future without a listener
NoUnregisteredFuture ==
    \A t \in 1..Len(tasks) :
        (tasks[t].kind = "ready" /\ tasks[t].pc \in {"chunker", "wait"}) =>
            \A i \in 1..Len(tasks[t].chunks) :
                LET f == tasks[t].chunks[i]
                IN futures[f].st = "pending" =>
                       \E k \in 1..Len(listeners) : listeners[k].future = f

\* C20: in the handshake's Chunking state, for every pending guild G exactly
\* ceil(memberCount(G) / 1000) chunk listeners matching G's id are in the
\* registry before the first chunker call is issued, so that a chunk record
\* for G arriving at any suspension point after the request was sent never
\* meets a handshake future that is pending and not yet registered.
C20_ListenersBeforeChunker == []NoUnregisteredFuture /\ [][ListenersBeforeRequest]_vars

\* the first chunker call of a handshake just went out for a folded-in guild of
\* 1001 members, with its two listeners in the registry
C20_Witness ==
    /\ op.name \in {"delay_ready_start", "delay_ready_wake"}
    /\ called # <<>>
    /\ \E t \in 1..Len(tasks) :
           /\ tasks[t].kind = "ready" /\ tasks[t].pc = "chunker" /\ tasks[t].sent = 1
           /\ op.id = t
           /\ Len(tasks[t].pending) = 1
           /\ guild_objs[tasks[t].pending[1]].mc = ChunkSize + 1
           /\ Len(tasks[t].chunks) = 2
           /\ \A i \in 1..2 : \E k \in 1..Len(listeners) :
                  listeners[k].future = tasks[t].chunks[i]


----------------------------------------------------------------------------
(* C21 *)

\* the batches of a sequence of chunker calls, concatenated in call order
RECURSIVE Flatten(_)
Flatten(bs) == IF bs = <<>> THEN <<>> ELSE Flatten(SubSeq(bs, 1, Len(bs) - 1)) \o bs[Len(bs)]

\* a chunker call carries between 1 and 75 guilds, is the only call of its
\* step, and is issued by a coroutine that is not suspended in an earlier call
\* other than the one that just returned
OneBatchAtATime ==
    \A t \in 1..Len(tasks') :
        ChunkerCall(t) =>
            /\ Len(called') = 1
            /\ Len(called'[1].arg) \in 1..BatchSize
            /\ tasks'[t].pc = "chunker"
            /\ tasks'[t].sent = Len(batches'[t])
            /\ Flatten(batches'[t]) = SubSeq(tasks'[t].pending, 1, Len(Flatten(batches'[t])))

\* the step takes handshake t past its chunker calls
RequestsDone(t) ==
    /\ tasks[t].kind = "ready"
    /\ tasks[t].pc \in {"start", "sleep", "chunker"}
    /\ tasks'[t].pc \in {"wait", "sync", "done"}

\* once the calls are over there were ceil(n / 75) of them and their batches
\* together are the pending list
BatchesCoverPending ==
    \A t \in 1..Len(tasks) :
        RequestsDone(t) =>
            /\ Len(batches'[t]) = Ceil(Len(tasks'[t].pending), BatchSize)
            /\ Flatten(batches'[t]) = tasks'[t].pending
            /\ tasks'[t].pending = <<>> => batches'[t] = <<>>

\* C21: for a pending list of n guilds the orchestrator issues exactly
\* ceil(n / 75) chunker calls, each with 1 to 75 guilds; the batches
\* concatenated in call order are the pending list, each call is awaited
\* before the next is issued, and no call is issued when n = 0.
C21_BatchesOf75 == [][OneBatchAtATime /\ BatchesCoverPending]_vars

\* a handshake with 151 pending guilds is past its three chunker calls, the
\* last of them for one guild
C21_Witness ==
    \E t \in 1..Len(tasks) :
        /\ tasks[t].kind = "ready" /\ tasks[t].pc \in {"wait", "done"}
        /\ Len(tasks[t].pending) = MaxFolded
        /\ Len(batches[t]) = 3
        /\ Len(batches[t][1]) = BatchSize /\ Len(batches[t][3]) = 1


----------------------------------------------------------------------------
(* C22 *)

\* message id mid is in the buffer the k-th dispatch of the step found
InBufferAt(k, mid) == \E i \in 1..Len(seen'[k]) : seen'[k][i] = mid

\* C22: in every handler the cache and buffer mutation for the record is
\* complete before dispatch is invoked: at the 'message' dispatch the new
\* message is already in the buffer, and at the 'message_delete' dispatch the
\* message is already gone from it.
C22_Original ==
    [][\A k \in 1..Len(dispatched') :
           /\ dispatched'[k].name = "message" => InBufferAt(k, dispatched'[k].arg)
           /\ dispatched'[k].name = "message_delete" => ~InBufferAt(k, dispatched'[k].arg)]_vars


----------------------------------------------------------------------------
(* C23 *)

\* a _chunk_and_dispatch coroutine for guild id g has issued its chunk request
\* and is suspended in the chunker call
RequestOut(g) ==
    \E t \in 1..Len(tasks) :
        /\ tasks[t].kind = "chunk" /\ tasks[t].pc = "chunker"
        /\ guild_objs[tasks[t].guild].id = g

\* the step fulfilled a pending future registered for guild id g
Matched(g) ==
    \E f \in 1..Len(futures) :
        /\ futures[f].gid = g
        /\ futures[f].st = "pending"
        /\ futures'[f].st = "result"

\* C23: in the post-handshake path the chunk listeners for G are in the
\* registry whenever a chunk record for G can be reconciled after G's chunk
\* request was issued: a members-chunk record for G handled while the task is
\* suspended in the chunker call is matched by a listener (so that the task
\* can end its wait on the records instead of on the timeout).
C23_Original ==
    [][(/\ op'.name = "parse_guild_members_chunk"
        /\ op'.id \in DOMAIN guilds
        /\ RequestOut(op'.id)) => Matched(op'.id)]_vars


----------------------------------------------------------------------------
(* C24 *)

\* a future that holds a result or an exception
Resolved(f) == f.st \in {"result", "exception"}

\* every registered listener holds a future that is pending or cancelled
RegistryUnresolved ==
    \A i \in 1..Len(listeners) : ~Resolved(futures[listeners[i].future])

\* a resolved future is never touched again; a future resolved by a step has
\* no listener left after that step; a pass fails only in _make_member, before
\* process_listeners is reached, never on a future that is already done
ResolvedOnce ==
    /\ \A f \in 1..Len(futures) :
           /\ Resolved(futures[f]) => futures'[f] = futures[f]
           /\ (~Resolved(futures[f]) /\ Resolved(futures'[f])) => Unregistered(f)
    /\ (op'.name = "parse_guild_members_chunk" /\ raised') =>
           (op'.id \notin DOMAIN guilds /\ op'.arg > 0 /\ futures' = futures)

\* C24: in every reachable state every listener in the registry has a future
\* that is pending or cancelled, never fulfilled or failed: a future is
\* fulfilled or failed at most once and its listener is removed in the same
\* process_listeners pass, so no pass tries to resolve a resolved future.
C24_RegistryUnresolved == []RegistryUnresolved /\ [][ResolvedOnce]_vars

\* a pass fulfilled one future and left a pending and a cancelled listener in
\* the registry
C24_Witness ==
    /\ op.name = "parse_guild_members_chunk" /\ ~raised
    /\ \E f \in 1..Len(futures) : futures[f].st = "result"
    /\ \E i \in 1..Len(listeners) : futures[listeners[i].future].st = "pending"
    /\ \E i \in 1..Len(listeners) : futures[listeners[i].future].st = "cancelled"


----------------------------------------------------------------------------
(* C25 *)

\* the step ends the chunk wait of coroutine t, by completion or by timeout
WaitEnds(t) ==
    /\ tasks[t].pc = "wait"
    /\ tasks'[t].pc \in {"sync", "done"}

\* C25: when a chunk wait ends (the handshake goes on to dispatch 'ready',
\* or _chunk_and_dispatch dispatches its guild event) the registry holds no
\* chunk listener that was registered for that wait, also when the wait
\* ended by timeout, so that a later chunk record for the guild is not
\* consumed by a listener left over from a finished wait.
C25_Original ==
    [][\A t \in 1..Len(tasks) :
           WaitEnds(t) =>
               \A i \in 1..Len(tasks[t].chunks) : Unregistered(tasks[t].chunks[i])]_vars

====
